---- MODULE Spec2Model ----
(***************************************************************************)
(* Band scoring and aggregation of the IELTS diagnostic backend.           *)
(*                                                                         *)
(* Numbers.  A band is a JavaScript number.  Every score is held as an     *)
(* integer count of 1/1200 of a band (ONE = 1200), so that 0.05-band raw   *)
(* scores, their quarter- and half-band thresholds and the mean of up to   *)
(* four of them are all exact integers: 6.5 is 7800, 0.25 is 300.          *)
(* null, undefined and NaN are the one value NULL; an arithmetic step on   *)
(* NULL yields NULL (NaN) and a comparison with NULL is false, as in JS.   *)
(*                                                                         *)
(* Behaviour.  One request is received (Init draws it), the handler of its *)
(* route runs to completion and stores the response.                       *)
(***************************************************************************)
EXTENDS Integers, Sequences, FiniteSets

VARIABLES pc, req, res, frames, calls, db

vars == <<pc, req, res, frames, calls, db>>

\* what lies outside one synchronous call: the locals of calls in progress,
\* the number of completions asked of the scoring service, the tables
ext == <<frames, calls, db>>

ExtInit == frames = <<>> /\ calls = 0 /\ db = <<>>

\* ---------------------------------------------------------------- numbers

NULL == -1

ONE == 12 * 100
HALF == ONE \div 2
QUARTER == ONE \div 4
GRID == ONE \div 20

\* h hundredths of a band, in model units: H(650) is band 6.5
H(h) == h * 12

\* the bound of the raw listening score (the diagnostic set has 6 items)
MaxRaw == 7
\* the bound of the number of writing_submissions rows of one attempt
MaxWritingSubs == 2

IsNum(v) == v # NULL

\* Math.min(a, b): NaN when either argument is undefined or NaN
MathMin(a, b) == IF a = NULL \/ b = NULL THEN NULL ELSE IF a < b THEN a ELSE b

\* a || d : d replaces a falsy a (undefined, null, NaN, 0)
OrElse(a, d) == IF a = NULL \/ a = 0 THEN d ELSE a

\* a ?? d : d replaces a null or undefined a
Coalesce(a, d) == IF a = NULL THEN d ELSE a

RECURSIVE SumSeq(_)
SumSeq(s) == IF s = <<>> THEN 0 ELSE Head(s) + SumSeq(Tail(s))

\* vals.filter(v => typeof v === 'number' && !Number.isNaN(v))
RECURSIVE FilterNums(_)
FilterNums(s) ==
  IF s = <<>> THEN <<>>
  ELSE IF IsNum(Head(s)) THEN <<Head(s)>> \o FilterNums(Tail(s))
  ELSE FilterNums(Tail(s))

\* ---------------------------------------------------------------- rounding

\* roundIELTS with <= at the 0.25 and 0.75 boundaries
roundIELTS_BoundaryDown(x) ==
  LET floor == (x \div ONE) * ONE
      frac == x - floor
  IN  IF frac <= QUARTER THEN floor
      ELSE IF frac <= 3 * QUARTER THEN floor + HALF
      ELSE floor + ONE

\* roundIELTS with the upper threshold at 0.5: a half band is rounded up again
roundIELTS_HalfRoundsUp(x) ==
  LET floor == (x \div ONE) * ONE
      frac == x - floor
  IN  IF frac < QUARTER THEN floor
      ELSE IF frac < HALF THEN floor + HALF
      ELSE floor + ONE

roundIELTS(x) ==
  LET floor == (x \div ONE) * ONE
      frac == x - floor
  IN  IF frac < QUARTER THEN floor
      ELSE IF frac < 3 * QUARTER THEN floor + HALF
      ELSE floor + ONE

\* the rounding left out
roundHalf_NotApplied(n) == n

\* Math.round(n * 2) / 2, Math.round(y) being floor(y + 0.5)
roundHalf(n) ==
  IF n = NULL THEN NULL ELSE ((2 * n + HALF) \div ONE) * HALF

\* meanHalf dividing by the number of skills, not of present bands
meanHalf_CountAbsentAsZero(vals) ==
  LET nums == FilterNums(vals)
  IN  IF Len(nums) = 0 THEN NULL
      ELSE roundIELTS(SumSeq(nums) \div Len(vals))

meanHalf(vals) ==
  LET nums == FilterNums(vals)
  IN  IF Len(nums) = 0 THEN NULL
      ELSE roundIELTS(SumSeq(nums) \div Len(nums))

\* ---------------------------------------------------------------- listening

\* computeListeningBand with the top bucket left at 7.5
computeListeningBand_TopBucketUncapped(rawScore) ==
  IF rawScore = NULL THEN H(750)
  ELSE IF rawScore <= 1 THEN H(450)
  ELSE IF rawScore <= 3 THEN H(550)
  ELSE IF rawScore <= 5 THEN H(650)
  ELSE H(750)

\* the diagnostic variant; every comparison with an undefined raw score is false
computeListeningBand(rawScore) ==
  IF rawScore = NULL THEN H(650)
  ELSE IF rawScore <= 1 THEN H(450)
  ELSE IF rawScore <= 3 THEN H(550)
  ELSE IF rawScore <= 5 THEN H(650)
  ELSE H(650)

\* the variant of the same helper without the ceiling
computeListeningBandLegacy(rawScore) ==
  IF rawScore = NULL THEN H(750)
  ELSE IF rawScore <= 1 THEN H(450)
  ELSE IF rawScore <= 3 THEN H(550)
  ELSE IF rawScore <= 5 THEN H(650)
  ELSE H(750)

\* ---------------------------------------------------------------- writing scorer (scoreWriting)

SAFE_FALLBACK == [tr |-> H(600), cc |-> H(600), lr |-> H(600), gra |-> H(600),
                  overall |-> H(600)]

\* typeof v === 'number' ? v : d
NumberOr(v, d) == IF IsNum(v) THEN v ELSE d

\* "Guard numbers + round to 0.5" on the parsed scorer reply
GuardAndRound(parsed) ==
  LET tr == roundHalf(NumberOr(parsed.tr, H(600)))
      cc == roundHalf(NumberOr(parsed.cc, H(600)))
      lr == roundHalf(NumberOr(parsed.lr, H(600)))
      gra == roundHalf(NumberOr(parsed.gra, H(600)))
      overall == roundHalf(NumberOr(parsed.overall, (tr + cc + lr + gra) \div 4))
  IN  [tr |-> tr, cc |-> cc, lr |-> lr, gra |-> gra, overall |-> overall]

\* llm: the environment of one call: whether OPENAI_API_KEY is set, what the
\* first completion and the retry give ("throw": the call rejects, "empty":
\* no content, "bad": content JSON.parse rejects, "json": parsed is its value)
scoreWriting(llm, parsed) ==
  IF ~llm.apiKey THEN SAFE_FALLBACK
  ELSE IF llm.first \in {"throw", "empty"} THEN SAFE_FALLBACK
  ELSE IF llm.first = "json" THEN GuardAndRound(parsed)
  ELSE IF llm.retry = "json" THEN GuardAndRound(parsed)
  ELSE SAFE_FALLBACK

\* the other scoreWriting: numberOr on each criterion and average4 for a
\* missing overall, nothing rounded but the average
average4(a, b, c, d, def) ==
  roundHalf((NumberOr(a, def) + NumberOr(b, def) + NumberOr(c, def) + NumberOr(d, def)) \div 4)

scoreWritingAverage4(llm, parsed) ==
  IF ~llm.apiKey \/ llm.first # "json" THEN SAFE_FALLBACK
  ELSE     [tr |-> NumberOr(parsed.tr, H(600)),
            cc |-> NumberOr(parsed.cc, H(600)),
            lr |-> NumberOr(parsed.lr, H(600)),
            gra |-> NumberOr(parsed.gra, H(600)),
            overall |-> NumberOr(parsed.overall,
                          average4(parsed.tr, parsed.cc, parsed.lr, parsed.gra, H(600)))]

\* ---------------------------------------------------------------- writing routes

\* the Task 1 minimum used for every task
minRequiredWords_Always150(task_type) == 150

\* task_type === "Task 2" ? 250 : 150
minRequiredWords(task_type) == IF task_type = "Task 2" THEN 250 ELSE 150

\* off_topic === true || (on_topic_percent && on_topic_percent <= 50):
\* a relevance of 0 (or none) is falsy and the second operand is not reached
OffTopicCap(off_topic, on_topic_percent) ==
  off_topic \/ (IsNum(on_topic_percent) /\ on_topic_percent # 0 /\ on_topic_percent <= 50)

\* word_count < minRequiredWords, false for an undefined word_count
LengthCap(word_count, task_type) ==
  IsNum(word_count) /\ word_count < minRequiredWords(task_type)

\* the caps on band_overall, before rounding: 3.0, then 5.0, then the 6.5 ceiling
CapOverall(parsed, word_count, task_type) ==
  LET b1 == IF OffTopicCap(parsed.off_topic, parsed.on_topic_percent)
            THEN MathMin(parsed.band_overall, H(300)) ELSE parsed.band_overall
      b2 == IF LengthCap(word_count, task_type) THEN MathMin(b1, H(500)) ELSE b1
  IN  MathMin(b2, H(650))

\* the variant of the route that has no 6.5 ceiling
CapOverallBackend(parsed, word_count, task_type) ==
  LET b1 == IF OffTopicCap(parsed.off_topic, parsed.on_topic_percent)
            THEN MathMin(parsed.band_overall, H(300)) ELSE parsed.band_overall
  IN  IF LengthCap(word_count, task_type) THEN MathMin(b1, H(500)) ELSE b1

\* PostProcess truncating to the half band below instead of rounding
PostProcess_RoundDown(r) ==
  [status |-> 200,
   tr |-> (MathMin(r.parsed.tr, H(650)) \div HALF) * HALF,
   cc |-> (MathMin(r.parsed.cc, H(650)) \div HALF) * HALF,
   lr |-> (MathMin(r.parsed.lr, H(650)) \div HALF) * HALF,
   gra |-> (MathMin(r.parsed.gra, H(650)) \div HALF) * HALF,
   band_overall |-> (CapOverall(r.parsed, r.word_count, r.task_type) \div HALF) * HALF,
   off_topic |-> OffTopicCap(r.parsed.off_topic, r.parsed.on_topic_percent),
   on_topic_percent |-> OrElse(r.parsed.on_topic_percent, 100)]

\* "Server-side post-processing and safety caps" of POST /score-writing
PostProcess(r) ==
  [status |-> 200,
   tr |-> roundHalf(MathMin(r.parsed.tr, H(650))),
   cc |-> roundHalf(MathMin(r.parsed.cc, H(650))),
   lr |-> roundHalf(MathMin(r.parsed.lr, H(650))),
   gra |-> roundHalf(MathMin(r.parsed.gra, H(650))),
   band_overall |-> roundHalf(CapOverall(r.parsed, r.word_count, r.task_type)),
   off_topic |-> OffTopicCap(r.parsed.off_topic, r.parsed.on_topic_percent),
   on_topic_percent |-> OrElse(r.parsed.on_topic_percent, 100)]

PostProcessBackend(r) ==
  [status |-> 200,
   tr |-> roundHalf(r.parsed.tr),
   cc |-> roundHalf(r.parsed.cc),
   lr |-> roundHalf(r.parsed.lr),
   gra |-> roundHalf(r.parsed.gra),
   band_overall |-> roundHalf(CapOverallBackend(r.parsed, r.word_count, r.task_type)),
   off_topic |-> OffTopicCap(r.parsed.off_topic, r.parsed.on_topic_percent),
   on_topic_percent |-> OrElse(r.parsed.on_topic_percent, 100)]

\* what the route answers before it has a parsed reply: 0 when it has one
RouteFailure(r) ==
  IF ~r.valid THEN 400
  ELSE IF ~r.llm.apiKey THEN 500
  ELSE IF r.llm.first \in {"throw", "empty"} THEN 500
  ELSE IF r.llm.first = "bad" /\ r.llm.retry # "json" THEN 500
  ELSE 0

\* POST /detailed-scoring (its task_type "writing_t2" is "Task 2" here, its
\* measured_features.word_count is word_count, topic_relevance_0_100 is
\* on_topic_percent, overall_band is band_overall): no retry, a falsy overall_band or no criterion_bands
\* is an incomplete reply; the length cap, then the relevance cap (< 55, a
\* relevance of 0 being falsy), then the ceiling, then rounding
DetailedFailure(r) ==
  IF ~r.valid THEN 400
  ELSE IF ~r.llm.apiKey THEN 500
  ELSE IF r.llm.first # "json" THEN 500
  ELSE IF r.parsed.band_overall = NULL \/ r.parsed.band_overall = 0 THEN 500
  ELSE 0

DetailedPostProcess(r) ==
  LET minWords == IF r.task_type = "Task 2" THEN 250 ELSE 150
      b1 == IF IsNum(r.word_count) /\ r.word_count < minWords
            THEN MathMin(r.parsed.band_overall, H(500)) ELSE r.parsed.band_overall
      rel == r.parsed.on_topic_percent
      b2 == IF IsNum(rel) /\ rel # 0 /\ rel < 55 THEN MathMin(b1, H(300)) ELSE b1
  IN  [status |-> 200,
       tr |-> roundHalf(MathMin(r.parsed.tr, H(650))),
       cc |-> roundHalf(MathMin(r.parsed.cc, H(650))),
       lr |-> roundHalf(MathMin(r.parsed.lr, H(650))),
       gra |-> roundHalf(MathMin(r.parsed.gra, H(650))),
       band_overall |-> roundHalf(MathMin(b2, H(650))),
       off_topic |-> (IsNum(rel) /\ rel # 0 /\ rel < 55),
       on_topic_percent |-> rel]

\* ---------------------------------------------------------------- speaking scorer

\* cap65(roundHalf(band ?? 5.5)) on each band, then the same on their mean
SpeakingBandsOf(bands) ==
  LET cap65(n) == MathMin(H(650), n)
      fc == cap65(roundHalf(Coalesce(bands.fluency_coherence, H(550))))
      lx == cap65(roundHalf(Coalesce(bands.lexical_resource, H(550))))
      gr == cap65(roundHalf(Coalesce(bands.grammatical_range, H(550))))
      pr == cap65(roundHalf(Coalesce(bands.pronunciation, H(550))))
  IN  [status |-> 200,
       fluency_coherence |-> fc, lexical_resource |-> lx,
       grammatical_range |-> gr, pronunciation |-> pr,
       overall |-> cap65(roundHalf((Coalesce(fc, H(550)) + Coalesce(lx, H(550))
                                    + Coalesce(gr, H(550)) + Coalesce(pr, H(550))) \div 4))]

SpeakingFailure(r) ==
  IF ~r.valid THEN 400
  ELSE IF ~r.llm.apiKey THEN 500
  ELSE IF r.llm.first # "json" THEN 500
  ELSE 0

\* ---------------------------------------------------------------- requests

\* raw scores x in [0, 9] on the 0.05 grid
RawScores == {k * GRID : k \in 0..((9 * ONE) \div GRID)}

\* bands stored in sections.band (listening, reading), null when no row or no band
SectionBands == {NULL, H(450), H(630), H(650), H(700), H(900)}
\* bands stored in writing_submissions.band and speaking_attempts.band
SubmissionBands == {NULL, H(300), H(650), H(700)}
SpeakingBands == {NULL, H(550), H(625), H(700)}

RECURSIVE SeqsUpTo(_, _)
SeqsUpTo(S, n) ==
  IF n = 0 THEN {<<>>}
  ELSE LET shorter == SeqsUpTo(S, n - 1)
       IN  shorter \cup {Append(s, x) : s \in {t \in shorter : Len(t) = n - 1}, x \in S}

RoundRequests == [route : {"roundIELTS"}, x : RawScores]

ListeningRequests ==
  [route : {"computeListeningBand", "computeListeningBandLegacy"},
   rawScore : (0..MaxRaw) \cup {NULL}]

FinishFaults == {"attempt", "sections", "writing_submissions", "speaking_attempts", "update"}

FinishRequests ==
  [route : {"finish"}, fault : {"none"},
   listening : SectionBands, reading : SectionBands,
   writingSubs : SeqsUpTo(SubmissionBands, MaxWritingSubs),
   speaking : SpeakingBands]
  \cup
  [route : {"finish"}, fault : FinishFaults,
   listening : {H(650)}, reading : {NULL},
   writingSubs : {<<H(700)>>}, speaking : {NULL}]

\* the scorer's environment: the key, the first completion, the retry
LlmOk == [apiKey |-> TRUE, first |-> "json", retry |-> "json"]
LlmRetried == [apiKey |-> TRUE, first |-> "bad", retry |-> "json"]
LlmFailures ==
  {[apiKey |-> FALSE, first |-> "json", retry |-> "json"],
   [apiKey |-> TRUE, first |-> "throw", retry |-> "json"],
   [apiKey |-> TRUE, first |-> "empty", retry |-> "json"],
   [apiKey |-> TRUE, first |-> "bad", retry |-> "throw"],
   [apiKey |-> TRUE, first |-> "bad", retry |-> "empty"],
   [apiKey |-> TRUE, first |-> "bad", retry |-> "bad"]}

\* criterion scores of a parsed reply, NULL for a missing or non-numeric one
CriterionScores == {NULL, H(425), H(675), H(900)}
OverallScores == {NULL, 0, H(275), H(300), H(525), H(660), H(900)}

ParsedScores ==
  [tr : CriterionScores, cc : CriterionScores, lr : CriterionScores,
   gra : CriterionScores, overall : OverallScores]
SampleParsed == [tr |-> H(700), cc |-> NULL, lr |-> H(600), gra |-> H(650), overall |-> NULL]

ScoreWritingRequests ==
  [route : {"scoreWriting", "scoreWritingAverage4"}, llm : {LlmOk}, parsed : ParsedScores]
  \cup
  [route : {"scoreWriting", "scoreWritingAverage4"},
   llm : LlmFailures \cup {LlmRetried}, parsed : {SampleParsed}]

\* the legacy completion flow: listening.raw and the essay's scorer reply
CompleteRequests ==
  [route : {"complete"}, valid : {TRUE}, rawScore : {NULL, 0, 3, 5, 6},
   llm : {LlmOk},
   parsed : [tr : {NULL, H(675)}, cc : {NULL, H(900)}, lr : {H(425)}, gra : {H(675)},
             overall : OverallScores]]
  \cup
  [route : {"complete"}, valid : BOOLEAN, rawScore : {4},
   llm : LlmFailures \cup {LlmRetried}, parsed : {SampleParsed}]

SpeakingScores == {NULL, H(425), H(640), H(900)}
SampleSpeaking ==
  [fluency_coherence |-> H(600), lexical_resource |-> NULL,
   grammatical_range |-> H(500), pronunciation |-> H(700)]

SpeakingRequests ==
  [route : {"speaking"}, valid : {TRUE}, llm : {LlmOk},
   bands : [fluency_coherence : SpeakingScores, lexical_resource : SpeakingScores,
            grammatical_range : SpeakingScores, pronunciation : SpeakingScores]]
  \cup
  [route : {"speaking"}, valid : BOOLEAN, llm : LlmFailures \cup {LlmRetried},
   bands : {SampleSpeaking}]

\* replies of the route scorers: band_overall, the criteria, the off-topic flag
\* (an absent flag behaves as false) and the on-topic relevance in percent
RouteCriterion == {NULL, H(625), H(800)}
RouteOverall == {NULL, 0, H(275), H(300), H(525), H(800)}
Relevance == {NULL, 0, 1, 50, 51, 54, 55}
WordCounts == {NULL, 149, 150, 249, 250}

RouteParsed ==
  [band_overall : RouteOverall, tr : RouteCriterion, cc : RouteCriterion,
   lr : {H(625), H(800)}, gra : {NULL, H(800)},
   off_topic : BOOLEAN, on_topic_percent : Relevance]
SampleRouteParsed ==
  [band_overall |-> H(700), tr |-> H(700), cc |-> H(650), lr |-> H(600), gra |-> H(750),
   off_topic |-> FALSE, on_topic_percent |-> 90]

RouteNames == {"score-writing", "score-writing-backend", "detailed-scoring"}

RouteRequests ==
  [route : RouteNames, valid : {TRUE}, llm : {LlmOk},
   task_type : {"Task 1", "Task 2"}, word_count : WordCounts,
   saved : {TRUE}, parsed : RouteParsed]
  \cup
  [route : RouteNames, valid : BOOLEAN, llm : LlmFailures \cup {LlmRetried},
   task_type : {"Task 2"}, word_count : {300},
   saved : BOOLEAN, parsed : {SampleRouteParsed}]

\* ---------------------------------------------------------------- handlers

NoResponse == [status |-> 0]

\* a direct call of roundIELTS
RoundIELTS ==
  /\ pc = "received" /\ req.route = "roundIELTS"
  /\ res' = [status |-> 200, band |-> roundIELTS(req.x)]
  /\ pc' = "responded"
  /\ UNCHANGED <<req, ext>>

ComputeListeningBand ==
  /\ pc = "received" /\ req.route = "computeListeningBand"
  /\ res' = [status |-> 200, band |-> computeListeningBand(req.rawScore)]
  /\ pc' = "responded"
  /\ UNCHANGED <<req, ext>>

ComputeListeningBandLegacy ==
  /\ pc = "received" /\ req.route = "computeListeningBandLegacy"
  /\ res' = [status |-> 200, band |-> computeListeningBandLegacy(req.rawScore)]
  /\ pc' = "responded"
  /\ UNCHANGED <<req, ext>>

\* scoreWriting(essayText), the scorer with the retry
ScoreWriting ==
  /\ pc = "received" /\ req.route = "scoreWriting"
  /\ res' = [status |-> 200, score |-> scoreWriting(req.llm, req.parsed)]
  /\ pc' = "responded"
  /\ UNCHANGED <<req, ext>>

ScoreWritingAverage4 ==
  /\ pc = "received" /\ req.route = "scoreWritingAverage4"
  /\ res' = [status |-> 200, score |-> scoreWritingAverage4(req.llm, req.parsed)]
  /\ pc' = "responded"
  /\ UNCHANGED <<req, ext>>

\* POST /attempts/:id/finish. The response holds what is written to attempts
\* (band_*), which is also what is returned, null shown as 'N/A'.
FinishBands(r) ==
  LET bandListening == Coalesce(r.listening, NULL)
      bandReading == Coalesce(r.reading, NULL)
      writingBands == FilterNums(r.writingSubs)
      bandWriting == IF Len(writingBands) > 0
                     THEN roundIELTS(SumSeq(writingBands) \div Len(writingBands))
                     ELSE NULL
      bandSpeaking == IF IsNum(r.speaking) THEN roundIELTS(r.speaking) ELSE NULL
      bandOverall == meanHalf(<<bandListening, bandReading, bandWriting, bandSpeaking>>)
  IN  [status |-> 200,
       band_listening |-> bandListening, band_reading |-> bandReading,
       band_writing |-> bandWriting, band_speaking |-> bandSpeaking,
       band_overall |-> bandOverall]

Finish ==
  /\ pc = "received" /\ req.route = "finish"
  /\ res' = IF req.fault = "attempt" THEN [status |-> 404]
            ELSE IF req.fault # "none" THEN [status |-> 500]
            ELSE FinishBands(req)
  /\ pc' = "responded"
  /\ UNCHANGED <<req, ext>>

\* POST /attempts/complete, the legacy flow: the mean of the listening band and
\* the writing band (writingReview.overall || 0), by Math.round(x * 2) / 2
CompleteBands(r) ==
  LET listeningBand == computeListeningBand(r.rawScore)
      writingReview == scoreWriting(r.llm, r.parsed)
      writingBand == OrElse(writingReview.overall, 0)
      overallBand == roundHalf((listeningBand + writingBand) \div 2)
  IN  [status |-> 200, listening |-> listeningBand, writing |-> writingBand,
       overall |-> overallBand]

AttemptsComplete ==
  /\ pc = "received" /\ req.route = "complete"
  /\ res' = IF ~req.valid THEN [status |-> 400] ELSE CompleteBands(req)
  /\ pc' = "responded"
  /\ UNCHANGED <<req, ext>>

\* POST /speaking/score
SpeakingScore ==
  /\ pc = "received" /\ req.route = "speaking"
  /\ res' = IF SpeakingFailure(req) # 0 THEN [status |-> SpeakingFailure(req)]
            ELSE SpeakingBandsOf(req.bands)
  /\ pc' = "responded"
  /\ UNCHANGED <<req, ext>>

\* POST /score-writing (the route with the 6.5 ceiling)
ScoreWritingRoute ==
  /\ pc = "received" /\ req.route = "score-writing"
  /\ res' = IF RouteFailure(req) # 0 THEN [status |-> RouteFailure(req)]
            ELSE IF ~req.saved THEN [status |-> 500]
            ELSE PostProcess(req)
  /\ pc' = "responded"
  /\ UNCHANGED <<req, ext>>

\* POST /score-writing (the route without the ceiling)
ScoreWritingRouteBackend ==
  /\ pc = "received" /\ req.route = "score-writing-backend"
  /\ res' = IF RouteFailure(req) # 0 THEN [status |-> RouteFailure(req)]
            ELSE IF ~req.saved THEN [status |-> 500]
            ELSE PostProcessBackend(req)
  /\ pc' = "responded"
  /\ UNCHANGED <<req, ext>>

\* POST /detailed-scoring
DetailedScoring ==
  /\ pc = "received" /\ req.route = "detailed-scoring"
  /\ res' = IF DetailedFailure(req) # 0 THEN [status |-> DetailedFailure(req)]
            ELSE IF ~req.saved THEN [status |-> 500]
            ELSE DetailedPostProcess(req)
  /\ pc' = "responded"
  /\ UNCHANGED <<req, ext>>

\* ---------------------------------------------------------------- specification

Requests ==
  RoundRequests \cup ListeningRequests \cup FinishRequests \cup ScoreWritingRequests
  \cup CompleteRequests \cup SpeakingRequests \cup RouteRequests

Init ==
  /\ pc = "received"
  /\ req \in Requests
  /\ res = NoResponse
  /\ ExtInit

Next ==
  \/ RoundIELTS
  \/ ComputeListeningBand
  \/ ComputeListeningBandLegacy
  \/ Finish
  \/ ScoreWriting
  \/ ScoreWritingAverage4
  \/ AttemptsComplete
  \/ SpeakingScore
  \/ ScoreWritingRoute
  \/ ScoreWritingRouteBackend
  \/ DetailedScoring

Spec == Init /\ [][Next]_vars

\* ---------------------------------------------------------------- text

\* A string is the sequence of its characters, each a one-character string.
UpperLetters ==
  <<"A", "B", "C", "D", "E", "F", "G", "H", "I", "J", "K", "L", "M",
    "N", "O", "P", "Q", "R", "S", "T", "U", "V", "W", "X", "Y", "Z">>
LowerLetters ==
  <<"a", "b", "c", "d", "e", "f", "g", "h", "i", "j", "k", "l", "m",
    "n", "o", "p", "q", "r", "s", "t", "u", "v", "w", "x", "y", "z">>
Digits == {"0", "1", "2", "3", "4", "5", "6", "7", "8", "9"}

Range(s) == {s[i] : i \in DOMAIN s}

LowerSet == Range(LowerLetters)
UpperSet == Range(UpperLetters)

\* \s
Spaces == {" ", "\t", "\n"}
IsSpace(c) == c \in Spaces
\* [.!?]
Enders == {".", "!", "?"}
IsEnder(c) == c \in Enders
\* [,.!?;:]
IsPunct(c) == c \in {",", ".", "!", "?", ";", ":"}
\* [a-z]
IsLower(c) == c \in LowerSet
\* \w
WordChars == LowerSet \cup UpperSet \cup Digits \cup {"_"}
IsWordChar(c) == c \in WordChars

\* the lower-case and the upper-case form of every letter
LowerOf == [c \in UpperSet |-> LowerLetters[CHOOSE i \in DOMAIN UpperLetters : UpperLetters[i] = c]]
UpperOf == [c \in LowerSet |-> UpperLetters[CHOOSE i \in DOMAIN LowerLetters : LowerLetters[i] = c]]

toLowerChar(c) == IF c \in UpperSet THEN LowerOf[c] ELSE c
toUpperChar(c) == IF c \in LowerSet THEN UpperOf[c] ELSE c

\* String.prototype.toLowerCase
toLowerCase(t) == [i \in 1..Len(t) |-> toLowerChar(t[i])]

\* the characters of t from position i on (1-based), t.slice(i - 1)
From(t, i) == SubSeq(t, i, Len(t))

\* a call passes the value of its argument: Op at v, v evaluated once
Call(Op(_), v) == CHOOSE r \in {Op(x) : x \in {v}} : TRUE

\* the least and the greatest element of a non-empty set of positions
First(S) == Call(LAMBDA s : CHOOSE x \in s : \A y \in s : x <= y, S)
Last(S) == Call(LAMBDA s : CHOOSE x \in s : \A y \in s : y <= x, S)

\* the length of the longest run of characters of the set S from position p of t
RunLen(t, p, S) ==
  LET stops == {q \in p..Len(t) : t[q] \notin S}
  IN  IF stops = {} THEN Len(t) + 1 - p ELSE First(stops) - p

\* String.prototype.trim
trim(t) ==
  LET content == {p \in DOMAIN t : ~IsSpace(t[p])}
  IN  IF content = {} THEN <<>> ELSE SubSeq(t, First(content), Last(content))

\* t.replace(/\s+/g, ' '): the first character of each whitespace run stays, as a space
CompactWhitespace(t) ==
  LET kept == SelectSeq([p \in 1..Len(t) |-> p],
                        LAMBDA p : ~(IsSpace(t[p]) /\ p > 1 /\ IsSpace(t[p - 1])))
  IN  [k \in 1..Len(kept) |-> IF IsSpace(t[kept[k]]) THEN " " ELSE t[kept[k]]]

\* a.startsWith(b)
startsWith(a, b) == Len(b) <= Len(a) /\ SubSeq(a, 1, Len(b)) = b

\* a.includes(b)
includes(a, b) == \E i \in 1..(Len(a) - Len(b) + 1) : SubSeq(a, i, i + Len(b) - 1) = b

\* parts.join(sep)
RECURSIVE join(_, _)
join(parts, sep) ==
  IF parts = <<>> THEN <<>>
  ELSE IF Len(parts) = 1 THEN Head(parts)
  ELSE Head(parts) \o sep \o join(Tail(parts), sep)

\* \b before position p of t: exactly one of t[p - 1], t[p] is a word character
Boundary(t, p) ==
  (p > 1 /\ IsWordChar(t[p - 1])) # (p <= Len(t) /\ IsWordChar(t[p]))

\* .filter(Boolean) on a list of strings
FilterNonEmpty(parts) == SelectSeq(parts, LAMBDA part : part # <<>>)

\* t.split(/(?<=[.!?])\s+/) from position i on: a run of whitespace right
\* after a sentence ender separates two pieces
RECURSIVE SplitAfterEnders(_, _)
SplitAfterEnders(t, i) ==
  LET hits == {j \in i..Len(t) : IsSpace(t[j]) /\ j > 1 /\ IsEnder(t[j - 1])}
  IN  IF hits = {} THEN <<From(t, i)>>
      ELSE Call(LAMBDA j : <<SubSeq(t, i, j - 1)>>
                             \o SplitAfterEnders(t, j + RunLen(t, j, Spaces)),
                First(hits))

\* .split(/(?<=[.!?])\s+/).map(s => s.trim()).filter(Boolean)
SplitSentences(t) ==
  Call(LAMBDA pieces : FilterNonEmpty([i \in 1..Len(pieces) |-> trim(pieces[i])]),
       SplitAfterEnders(t, 1))

\* ---------------------------------------------------------------- transcriptProcessor

\* the body of the loop of deduplicateSentences: which branch the sentence takes
\* against the last kept one ("blank", "exact", "near", "new")
DedupBranch(deduplicated, sentence) ==
  LET normalized == trim(toLowerCase(sentence))
      last == IF deduplicated = <<>> THEN <<>> ELSE deduplicated[Len(deduplicated)]
      lastNorm == trim(toLowerCase(last))
  IN  IF normalized = <<>> THEN "blank"
      ELSE IF normalized = lastNorm THEN "exact"
      ELSE IF /\ lastNorm # <<>>
              /\ \/ startsWith(normalized, lastNorm)
                 \/ startsWith(lastNorm, normalized)
                 \/ /\ includes(normalized, lastNorm)
                    /\ 2 * Len(normalized) < 3 * Len(lastNorm)
           THEN "near"
      ELSE "new"

\* the loop body comparing the sentence with every kept sentence, not the last
DedupStep_AgainstAllKept(deduplicated, sentence) ==
  LET normalized == trim(toLowerCase(sentence))
  IN  IF \/ normalized = <<>>
         \/ \E j \in DOMAIN deduplicated : trim(toLowerCase(deduplicated[j])) = normalized
      THEN deduplicated
      ELSE Append(deduplicated, sentence)

\* the body of the loop: the kept list after the sentence
DedupStep(deduplicated, sentence) ==
  LET branch == DedupBranch(deduplicated, sentence)
      normalized == trim(toLowerCase(sentence))
      lastNorm == trim(toLowerCase(deduplicated[Len(deduplicated)]))
  IN  IF branch \in {"blank", "exact"} THEN deduplicated
      ELSE IF branch = "near"
           THEN IF Len(normalized) > Len(lastNorm)
                THEN [deduplicated EXCEPT ![Len(deduplicated)] = sentence]
                ELSE deduplicated
      ELSE Append(deduplicated, sentence)

\* the sentences deduplicateSentences walks: compact, split, trimmed, non-empty
DedupParts(text) ==
  IF trim(text) = <<>> THEN <<>>
  ELSE Call(SplitSentences, Call(trim, CompactWhitespace(text)))

RECURSIVE DedupFold(_, _)
DedupFold(deduplicated, parts) ==
  IF parts = <<>> THEN deduplicated
  ELSE Call(LAMBDA kept : DedupFold(kept, Tail(parts)),
            DedupStep(deduplicated, Head(parts)))

deduplicateSentences(text) ==
  Call(trim,
       Call(LAMBDA kept : join(kept, <<" ">>),
            Call(LAMBDA parts : DedupFold(<<>>, parts), DedupParts(text))))


\* the fillers of /\b(um+|uh+|er+|ah+|hmm+|you know|like|I mean)\b/gi, lower
\* case: the stem, and whether its last letter may repeat
FillerPatterns ==
  <<[stem |-> <<"u", "m">>, plus |-> TRUE],
    [stem |-> <<"u", "h">>, plus |-> TRUE],
    [stem |-> <<"e", "r">>, plus |-> TRUE],
    [stem |-> <<"a", "h">>, plus |-> TRUE],
    [stem |-> <<"h", "m", "m">>, plus |-> TRUE],
    [stem |-> <<"y", "o", "u", " ", "k", "n", "o", "w">>, plus |-> FALSE],
    [stem |-> <<"l", "i", "k", "e">>, plus |-> FALSE],
    [stem |-> <<"i", " ", "m", "e", "a", "n">>, plus |-> FALSE]>>

\* the length of the match of one alternative at position i of t followed by
\* \b, 0 when there is none (the repeated letter is taken greedily, and a
\* shorter repetition never ends at a word boundary)
PatternLenAt(t, i, pat) ==
  LET n == Len(pat.stem)
      more == IF pat.plus
              THEN RunLen(t, i + n, {pat.stem[n], toUpperChar(pat.stem[n])})
              ELSE 0
  IN  IF /\ i + n - 1 <= Len(t)
         /\ toLowerCase(SubSeq(t, i, i + n - 1)) = pat.stem
         /\ Boundary(t, i + n + more)
      THEN n + more ELSE 0

\* the length of the match of \b(um+|...|I mean)\b at position i, 0 for none:
\* the first alternative that matches
FillerLenAt(t, i) ==
  IF ~Boundary(t, i) THEN 0
  ELSE LET hits == {k \in DOMAIN FillerPatterns : PatternLenAt(t, i, FillerPatterns[k]) > 0}
       IN  IF hits = {} THEN 0 ELSE PatternLenAt(t, i, FillerPatterns[First(hits)])

\* text.match(fillerPattern): the matches from position i on, left to right
RECURSIVE FillerMatches(_, _)
FillerMatches(t, i) ==
  LET hits == {j \in i..Len(t) : FillerLenAt(t, j) > 0}
  IN  IF hits = {} THEN <<>>
      ELSE Call(LAMBDA j :
                  Call(LAMBDA n : <<SubSeq(t, j, j + n - 1)>> \o FillerMatches(t, j + n),
                       FillerLenAt(t, j)),
                First(hits))

\* the separator class [\s,.-] of the run pattern
RunSeparators == Spaces \cup {",", ".", "-"}

\* the repetitions matched without the back-reference: any filler repeats any
RECURSIVE RepeatsEnd_AnyFiller(_, _, _, _)
RepeatsEnd_AnyFiller(t, i, n, p) ==
  Call(LAMBDA q :
         Call(LAMBDA m : IF q - p \in 1..3 /\ q <= Len(t) /\ m > 0
                         THEN RepeatsEnd_AnyFiller(t, i, n, q + m)
                         ELSE p,
              IF q <= Len(t) THEN FillerLenAt(t, q) ELSE 0),
       p + RunLen(t, p, RunSeparators))

\* (?:[\s,.-]{0,3}\b\1\b){1,} from position p, \1 being the n characters at i:
\* the position after the last repetition, p itself when there is none
RECURSIVE RepeatsEnd(_, _, _, _)
RepeatsEnd(t, i, n, p) ==
  Call(LAMBDA q :
         IF /\ q - p \in 1..3
            /\ q + n - 1 <= Len(t)
            /\ toLowerCase(SubSeq(t, q, q + n - 1)) = toLowerCase(SubSeq(t, i, i + n - 1))
            /\ Boundary(t, q + n)
         THEN RepeatsEnd(t, i, n, q + n)
         ELSE p,
       p + RunLen(t, p, RunSeparators))

\* the position after the match of the run pattern at position j, 0 for none:
\* a filler and at least one repetition of it
RunEndAt(t, j) ==
  Call(LAMBDA n :
         Call(LAMBDA e : IF e > j + n THEN e ELSE 0,
              IF n > 0 THEN RepeatsEnd(t, j, n, j + n) ELSE 0),
       FillerLenAt(t, j))

\* text.replace(run, m => first filler of m) from position i on
RECURSIVE ReplaceRuns(_, _)
ReplaceRuns(t, i) ==
  LET hits == {j \in i..Len(t) : RunEndAt(t, j) > 0}
      Replaced(m) == LET first == FillerMatches(m, 1)
                     IN  IF first # <<>> THEN first[1] ELSE m
  IN  IF hits = {} THEN From(t, i)
      ELSE Call(LAMBDA j :
                  Call(LAMBDA e : SubSeq(t, i, j - 1)
                                    \o Call(Replaced, SubSeq(t, j, e - 1))
                                    \o ReplaceRuns(t, e),
                       RunEndAt(t, j)),
                First(hits))

normalizeFillers(text) ==
  IF text = <<>> THEN <<>>
  ELSE Call(trim, Call(CompactWhitespace, ReplaceRuns(text, 1)))

\* text.match(fillerPattern) lower-cased, [] when there is no match
extractFillers(text) ==
  Call(LAMBDA matches : [k \in 1..Len(matches) |-> toLowerCase(matches[k])],
       FillerMatches(text, 1))

\* the position of the letter of the match of /([.!?])\s+([a-z])/ at j, 0 for none
EnderLetterAt(t, j) ==
  LET k == RunLen(t, j + 1, Spaces)
  IN  IF IsEnder(t[j]) /\ k > 0 /\ j + k + 1 <= Len(t) /\ IsLower(t[j + k + 1])
      THEN j + k + 1 ELSE 0

\* result.replace(/([.!?])\s+([a-z])/g, `${punct} ${letter.toUpperCase()}`)
\* from position i on
RECURSIVE CapitalizeAfterEnders(_, _)
CapitalizeAfterEnders(t, i) ==
  LET hits == {j \in i..Len(t) : EnderLetterAt(t, j) > 0}
  IN  IF hits = {} THEN From(t, i)
      ELSE Call(LAMBDA j :
                  Call(LAMBDA e : SubSeq(t, i, j) \o <<" ", toUpperChar(t[e])>>
                                    \o CapitalizeAfterEnders(t, e + 1),
                       EnderLetterAt(t, j)),
                First(hits))

\* result.replace(/\bi\b/g, 'I')
CapitalizeStandaloneI(t) ==
  [p \in 1..Len(t) |->
     IF t[p] = "i" /\ Boundary(t, p) /\ Boundary(t, p + 1) THEN "I" ELSE t[p]]

\* result.replace(/\s+([,.!?;:])/g, '$1'): a whitespace character goes when the
\* run it is in ends at one of , . ! ? ; :
RemoveSpaceBeforePunct(t) ==
  LET Removed(p) == /\ IsSpace(t[p])
                    /\ LET q == p + RunLen(t, p, Spaces)
                       IN  q <= Len(t) /\ IsPunct(t[q])
      kept == SelectSeq([p \in 1..Len(t) |-> p], LAMBDA p : ~Removed(p))
  IN  [k \in 1..Len(kept) |-> t[kept[k]]]

\* result.replace(/([.!?])\s*/g, '$1 ') from position i on
RECURSIVE OneSpaceAfterEnders(_, _)
OneSpaceAfterEnders(t, i) ==
  LET hits == {j \in i..Len(t) : IsEnder(t[j])}
  IN  IF hits = {} THEN From(t, i)
      ELSE Call(LAMBDA j : SubSeq(t, i, j) \o <<" ">>
                             \o OneSpaceAfterEnders(t, j + 1 + RunLen(t, j + 1, Spaces)),
                First(hits))

fixCapitalization(text) ==
  LET CapitalizeFirst(result) ==
        IF result # <<>> /\ IsLower(Head(result))
        THEN <<toUpperChar(Head(result))>> \o Tail(result)
        ELSE result
  IN  IF text = <<>> THEN <<>>
      ELSE Call(trim,
             Call(LAMBDA result : OneSpaceAfterEnders(result, 1),
               Call(RemoveSpaceBeforePunct,
                 Call(CapitalizeStandaloneI,
                   Call(LAMBDA result : CapitalizeAfterEnders(result, 1),
                     Call(CapitalizeFirst, trim(text)))))))

\* the end of the match of \b[\w']+\b at position i of t, 0 for none: the
\* longest run of word characters and apostrophes that ends at a boundary
WordEndAt(t, i) ==
  LET k == RunLen(t, i, WordChars \cup {"'"})
      ends == {e \in i..(i + k - 1) : Boundary(t, e + 1)}
  IN  IF Boundary(t, i) /\ ends # {} THEN Last(ends) ELSE 0

\* (processed.match(/\b[\w']+\b/g) || []).length from position i on
RECURSIVE CountWords(_, _)
CountWords(t, i) ==
  LET hits == {j \in i..Len(t) : WordEndAt(t, j) > 0}
  IN  IF hits = {} THEN 0
      ELSE Call(LAMBDA e : 1 + CountWords(t, e + 1), WordEndAt(t, First(hits)))

\* the record for an empty rawText with its two counts left out (undefined)
EmptyTranscript_NoCounts ==
  [text |-> <<>>, sentences |-> <<>>, wordCount |-> NULL, fillerWords |-> <<>>,
   fillerCount |-> NULL]

\* the record returned for an empty or whitespace-only rawText
EmptyTranscript ==
  [text |-> <<>>, sentences |-> <<>>, wordCount |-> 0, fillerWords |-> <<>>,
   fillerCount |-> 0]

\* processTranscript extracting the fillers from the cleaned text
processTranscript_FillersOfCleanedText(rawText) ==
  IF trim(rawText) = <<>> THEN EmptyTranscript
  ELSE Call(LAMBDA processed :
              Call(LAMBDA fillerWords :
                     [text |-> processed,
                      sentences |-> SplitSentences(processed),
                      wordCount |-> CountWords(processed, 1),
                      fillerWords |-> fillerWords,
                      fillerCount |-> Len(fillerWords)],
                   extractFillers(processed)),
            Call(fixCapitalization,
                 Call(normalizeFillers, Call(deduplicateSentences, rawText))))

processTranscript(rawText) ==
  IF trim(rawText) = <<>> THEN EmptyTranscript
  ELSE Call(LAMBDA fillerWords :
              Call(LAMBDA processed :
                     [text |-> processed,
                      sentences |-> SplitSentences(processed),
                      wordCount |-> CountWords(processed, 1),
                      fillerWords |-> fillerWords,
                      fillerCount |-> Len(fillerWords)],
                   Call(fixCapitalization,
                        Call(normalizeFillers, Call(deduplicateSentences, rawText)))),
            extractFillers(rawText))

\* ---------------------------------------------------------------- feature extractor

\* text.split(/([.!?])\s+/) from position i on: the pieces and, between them,
\* the captured enders
RECURSIVE SplitWithEnders(_, _)
SplitWithEnders(t, i) ==
  LET hits == {j \in i..(Len(t) - 1) : IsEnder(t[j]) /\ IsSpace(t[j + 1])}
  IN  IF hits = {} THEN <<From(t, i)>>
      ELSE Call(LAMBDA j : <<SubSeq(t, i, j - 1), <<t[j]>>>>
                             \o SplitWithEnders(t, j + 1 + RunLen(t, j + 1, Spaces)),
                First(hits))

\* the reduce of deduplicate over arr from index idx on: each element, joined
\* with the next one when that holds a sentence ender, is pushed unless it
\* equals the last pushed chunk case-insensitively
RECURSIVE DeduplicateReduce(_, _, _)
DeduplicateReduce(acc, arr, idx) ==
  IF idx > Len(arr) THEN acc
  ELSE LET next == IF idx < Len(arr) THEN arr[idx + 1] ELSE <<>>
           nextPunct == IF \E c \in Range(next) : IsEnder(c) THEN next ELSE <<>>
       IN  Call(LAMBDA chunk :
                  IF chunk = <<>> THEN DeduplicateReduce(acc, arr, idx + 1)
                  ELSE IF acc = <<>> \/ toLowerCase(acc[Len(acc)]) # toLowerCase(chunk)
                       THEN Call(LAMBDA pushed : DeduplicateReduce(pushed, arr, idx + 1),
                                 Append(acc, chunk))
                  ELSE DeduplicateReduce(acc, arr, idx + 1),
                trim(arr[idx] \o nextPunct))

\* deduplicate of the feature extractor
deduplicate(text) ==
  IF text = <<>> THEN <<>>
  ELSE Call(RemoveSpaceBeforePunct,
         Call(LAMBDA parts : join(parts, <<" ">>),
           Call(LAMBDA arr : DeduplicateReduce(<<>>, arr, 1),
             Call(LAMBDA compact : SplitWithEnders(compact, 1),
               Call(trim, CompactWhitespace(text))))))

\* text.split(/\s+/).filter(Boolean).length: the places where a token begins
CountTokens(t) ==
  Cardinality({p \in DOMAIN t : ~IsSpace(t[p]) /\ (p = 1 \/ IsSpace(t[p - 1]))})

\* text.split(/[.!?]+/).map(s => s.trim()).filter(Boolean).length: the places
\* where the first non-blank character after the start or a sentence ender is
sentenceCount(t) ==
  LET Content(p) == ~IsEnder(t[p]) /\ ~IsSpace(t[p])
  IN  Cardinality({p \in DOMAIN t :
        /\ Content(p)
        /\ \A q \in 1..(p - 1) : Content(q) => \E r \in (q + 1)..(p - 1) : IsEnder(t[r])})

\* the filler list of countFillers, each a list of words joined by \s+
FillerList ==
  <<<< <<"u", "m">> >>, << <<"u", "h">> >>, << <<"e", "r">> >>, << <<"e", "r", "m">> >>,
    << <<"l", "i", "k", "e">> >>,
    << <<"y", "o", "u">>, <<"k", "n", "o", "w">> >>,
    << <<"i">>, <<"m", "e", "a", "n">> >>,
    << <<"s", "o", "r", "t">>, <<"o", "f">> >>,
    << <<"k", "i", "n", "d">>, <<"o", "f">> >> >>

\* the position after the match of the words of f (\s+ between them) at i, 0 for none
RECURSIVE WordsEndAt(_, _, _)
WordsEndAt(t, i, f) ==
  LET w == Head(f)
      e == i + Len(w)
      k == RunLen(t, e, Spaces)
  IN  IF e - 1 > Len(t) \/ SubSeq(t, i, e - 1) # w THEN 0
      ELSE IF Len(f) = 1 THEN e
      ELSE IF k = 0 THEN 0
      ELSE WordsEndAt(t, e + k, Tail(f))

\* lowered.match(/\bf\b/g).length: the places where f begins as whole words
CountFiller(t, f) ==
  Cardinality({i \in DOMAIN t :
    /\ Boundary(t, i)
    /\ WordsEndAt(t, i, f) > 0
    /\ Boundary(t, WordsEndAt(t, i, f))})

RECURSIVE SumOver(_, _)
SumOver(counts, k) == IF k = 0 THEN 0 ELSE counts[k] + SumOver(counts, k - 1)

countFillers(text) ==
  Call(LAMBDA lower :
         SumOver([k \in DOMAIN FillerList |-> CountFiller(lower, FillerList[k])],
                 Len(FillerList)),
       toLowerCase(text))

\* Times are integer hundredths of a second (0.2 s is 20), an absent start or
\* end is NULL.  A duration is the exact fraction n / d of hundredths.

\* Number((a / b).toFixed(0)) on the exact quotient, b > 0
ToFixed(a, b) ==
  IF a >= 0 THEN (2 * a + b) \div (2 * b) ELSE 0 - ((2 * (0 - a) + b) \div (2 * b))

\* the fallback without its floor of one second
FallbackDuration_NoFloor(wordCount) == [n |-> wordCount * 1000, d |-> 28]

\* Math.max(wordCount / 2.8, 1) seconds
FallbackDuration(wordCount) ==
  IF wordCount * 1000 > 100 * 28 THEN [n |-> wordCount * 1000, d |-> 28]
  ELSE [n |-> 100, d |-> 1]

\* (segments.at(-1)?.end ?? 0) - (segments[0]?.start ?? 0), not clamped
SpanOf(segments) ==
  Coalesce(segments[Len(segments)].end, 0) - Coalesce(segments[1].start, 0)

\* the pause loop counting a gap of exactly 0.2 s too
RECURSIVE PauseGaps_FromThreshold(_, _)
PauseGaps_FromThreshold(segments, i) ==
  IF i > Len(segments) THEN <<>>
  ELSE LET prevEnd == Coalesce(segments[i - 1].end, 0)
           curStart == Coalesce(segments[i].start, 0)
           gap == IF curStart - prevEnd > 0 THEN curStart - prevEnd ELSE 0
       IN  (IF gap >= 20 THEN <<gap>> ELSE <<>>) \o PauseGaps_FromThreshold(segments, i + 1)

\* the gaps the pause loop pushes: Math.max(0, curStart - prevEnd) when > 0.2
RECURSIVE PauseGaps(_, _)
PauseGaps(segments, i) ==
  IF i > Len(segments) THEN <<>>
  ELSE LET prevEnd == Coalesce(segments[i - 1].end, 0)
           curStart == Coalesce(segments[i].start, 0)
           gap == IF curStart - prevEnd > 0 THEN curStart - prevEnd ELSE 0
       IN  (IF gap > 20 THEN <<gap>> ELSE <<>>) \o PauseGaps(segments, i + 1)

\* the returned record, given the total duration
FeaturesOf(text, segments, totalDuration) ==
  LET wordCount == CountTokens(text)
      pauseDurations == PauseGaps(segments, 2)
      fillerCount == countFillers(text)
  IN  [text |-> text,
       audioFeatures |->
         [wpm |-> IF totalDuration.n > 0
                  THEN ToFixed(wordCount * 60 * 1000 * totalDuration.d, totalDuration.n)
                  ELSE 0,
          fillerPer100 |-> IF wordCount # 0 THEN ToFixed(fillerCount * 10000, wordCount) ELSE 0,
          longPauseCount |-> Cardinality({k \in DOMAIN pauseDurations : pauseDurations[k] >= 80}),
          pauseCount |-> Len(pauseDurations),
          meanPauseDuration |-> IF Len(pauseDurations) # 0
                                THEN ToFixed(SumSeq(pauseDurations), Len(pauseDurations))
                                ELSE 0,
          speechDuration |-> ToFixed(totalDuration.n, totalDuration.d),
          articulationRate |-> IF totalDuration.n > 0
                               THEN ToFixed(wordCount * 14000 * totalDuration.d, totalDuration.n)
                               ELSE 0,
          wordCount |-> wordCount,
          sentenceCount |-> sentenceCount(text)]]

\* processTranscript(rawText, segments), the version without the clamp
processTranscriptUnclamped(rawText, segments) ==
  Call(LAMBDA text :
         FeaturesOf(text, segments,
                    IF Len(segments) # 0 THEN [n |-> SpanOf(segments), d |-> 1]
                    ELSE FallbackDuration(CountTokens(text))),
       deduplicate(rawText))

\* processTranscript(rawText, segments), the version with Math.max(0, ...)
processTranscriptClamped(rawText, segments) ==
  LET span == IF Len(segments) > 0 THEN SpanOf(segments) ELSE 0
  IN  Call(LAMBDA text :
             FeaturesOf(text, segments,
                        IF Len(segments) > 0 THEN [n |-> IF span > 0 THEN span ELSE 0, d |-> 1]
                        ELSE FallbackDuration(CountTokens(text))),
           deduplicate(rawText))

\* ---------------------------------------------------------------- transcripts

\* the bound of the number of sentences of a generated text
MaxSentences == 3
\* the bound of the number of filler and word tokens of a generated text
MaxTokens == 3
\* the bound of the length of a generated character string
MaxChars == 4
\* the bound of the number of segments of a recognised utterance
MaxSegments == 3

\* the texts w1 s1 w2 ... wk of up to n words of Words joined by separators of Seps
RECURSIVE TextsOf(_, _, _)
TextsOf(Words, Seps, n) ==
  IF n <= 1 THEN Words
  ELSE LET shorter == TextsOf(Words, Seps, n - 1)
       IN  shorter \cup {t \o s \o w : t \in shorter, s \in Seps, w \in Words}

\* sentences that are equal up to case, prefixes of one another, contained in
\* one another, or unrelated; the last one has no sentence ender
Sentences ==
  {<<"a", "b", ".">>, <<"A", "b", ".">>, <<"x", "a", "b", ".">>, <<"b", ".", "c", ".">>,
   <<"a", "b", ".", "c", ".">>, <<"a", "b">>}
SentenceTexts == TextsOf(Sentences, {<<" ">>}, MaxSentences)

\* fillers in several spellings, and a word that is no filler
Tokens ==
  {<<"u", "m">>, <<"U", "m">>, <<"u", "m", "m">>, <<"u", "h">>, <<"s", "o">>}
\* separators of one, two and four characters of the class [\s,.-]
Separators == {<<" ">>, <<",", " ">>, <<".", ".", ".", " ">>}
TokenTexts == TextsOf(Tokens, Separators, MaxTokens)

\* every string of up to MaxChars characters over letters, spaces and punctuation
CharTexts == SeqsUpTo({"a", "i", " ", ".", ","}, MaxChars)

\* "", " " and "\t \n"
BlankTexts == {<<>>, <<" ">>, <<"\t", " ", "\n">>}

\* "I think I think that the plan works."
StutterText ==
  <<"I", " ", "t", "h", "i", "n", "k", " ", "I", " ", "t", "h", "i", "n", "k", " ",
    "t", "h", "a", "t", " ", "t", "h", "e", " ", "p", "l", "a", "n", " ", "w", "o",
    "r", "k", "s", ".">>

\* "um um uh uh"
UmUhText ==
  <<"u", "m", " ", "u", "m", " ", "u", "h", " ", "u", "h">>

\* "um um um so basically basically it works"
UmSoText ==
  <<"u", "m", " ", "u", "m", " ", "u", "m", " ", "s", "o", " ", "b", "a", "s", "i",
    "c", "a", "l", "l", "y", " ", "b", "a", "s", "i", "c", "a", "l", "l", "y", " ",
    "i", "t", " ", "w", "o", "r", "k", "s">>

\* "ab. b.c. ab.c. ab.": the fourth sentence repeats the first
RevisitText ==
  <<"a", "b", ".", " ", "b", ".", "c", ".", " ", "a", "b", ".", "c", ".", " ", "a",
    "b", ".">>

\* a recognised answer with repeated fillers, a repeated sentence and loose punctuation
SpokenText ==
  <<"s", "o", " ", "u", "m", ",", " ", "u", "m", " ", "i", " ", "t", "h", "i", "n",
    "k", ".", " ", " ", "I", " ", "T", "H", "I", "N", "K", ".", " ", "y", "o", "u",
    " ", "k", "n", "o", "w", " ", "y", "o", "u", " ", "k", "n", "o", "w", " ", "i",
    "t", "'", "s", " ", "l", "i", "k", "e", " ", ",", "w", "e", "l", "l", ".", ".",
    ".", " ", "o", "k">>

SampleTexts == {StutterText, UmUhText, UmSoText, RevisitText, SpokenText}

\* segments with their start and end in hundredths of a second, NULL when
\* absent: the gaps between two of them are negative, 0, 0.2, 0.5, 0.8 and 1.0 s
Segments ==
  {[start |-> NULL, end |-> 20], [start |-> 20, end |-> 70],
   [start |-> 70, end |-> 100], [start |-> 100, end |-> NULL]}
\* three segments with a short and a long pause between them
SampleSegments ==
  <<[start |-> 0, end |-> 100], [start |-> 130, end |-> 250], [start |-> 330, end |-> 400]>>

\* one segment of a minute
MinuteSegments == <<[start |-> 0, end |-> 6000]>>

\* n words separated by single spaces
WordsText(n) == [k \in 1..(2 * n - 1) |-> IF k % 2 = 1 THEN "a" ELSE " "]

\* texts of 1, 2, 3, 130 and 140 words
CountedTexts == {WordsText(1), WordsText(2), WordsText(3), WordsText(130), WordsText(140)}

DedupRequests ==
  [route : {"deduplicateSentences"},
   text : SentenceTexts \cup BlankTexts \cup SampleTexts]

FillerRequests ==
  [route : {"normalizeFillers"}, text : TokenTexts \cup {<<>>} \cup SampleTexts]

CapitalizationRequests ==
  [route : {"fixCapitalization"}, text : CharTexts \cup SampleTexts]

ProcessRequests ==
  [route : {"processTranscript"},
   rawText : SentenceTexts \cup TextsOf(Tokens, {<<" ">>}, MaxTokens) \cup CharTexts
             \cup BlankTexts \cup SampleTexts]

\* missing names the arguments that are null or undefined in the call
FeatureRequests ==
  [route : {"features", "featuresUnclamped"},
   rawText : {UmUhText}, segments : SeqsUpTo(Segments, MaxSegments), missing : {{}}]
  \cup
  [route : {"features", "featuresUnclamped"},
   rawText : BlankTexts \cup SampleTexts, segments : {<<>>, SampleSegments}, missing : {{}}]
  \cup
  [route : {"features", "featuresUnclamped"},
   rawText : CountedTexts, segments : {<<>>, MinuteSegments}, missing : {{}}]
  \cup
  [route : {"features", "featuresUnclamped"},
   rawText : {<<>>}, segments : {<<>>}, missing : {{"rawText"}, {"rawText", "segments"}}]
  \cup
  [route : {"features", "featuresUnclamped"},
   rawText : {<<>>, UmUhText}, segments : {<<>>}, missing : {{"segments"}}]

TranscriptRequests ==
  DedupRequests \cup FillerRequests \cup CapitalizationRequests \cup ProcessRequests
  \cup FeatureRequests

\* deduplicateSentences, one loop iteration at a time: i sentences of parts
\* are done, branch is the branch the last one took
Deduplicate ==
  /\ pc = "received" /\ req.route = "deduplicateSentences"
  /\ res' = [status |-> IF trim(req.text) = <<>> THEN 200 ELSE 0,
             parts |-> DedupParts(req.text), i |-> 0, deduplicated |-> <<>>,
             branch |-> "none", text |-> <<>>]
  /\ pc' = IF trim(req.text) = <<>> THEN "responded" ELSE "dedup"
  /\ UNCHANGED <<req, ext>>

DeduplicateLoop ==
  /\ pc = "dedup" /\ res.i < Len(res.parts)
  /\ res' = [res EXCEPT !.i = @ + 1,
                        !.deduplicated = DedupStep(@, res.parts[res.i + 1]),
                        !.branch = DedupBranch(res.deduplicated, res.parts[res.i + 1])]
  /\ UNCHANGED <<pc, req, ext>>

DeduplicateReturn ==
  /\ pc = "dedup" /\ res.i = Len(res.parts)
  /\ res' = [res EXCEPT !.status = 200, !.text = trim(join(res.deduplicated, <<" ">>))]
  /\ pc' = "responded"
  /\ UNCHANGED <<req, ext>>

NormalizeFillers ==
  /\ pc = "received" /\ req.route = "normalizeFillers"
  /\ res' = [status |-> 200, text |-> normalizeFillers(req.text)]
  /\ pc' = "responded"
  /\ UNCHANGED <<req, ext>>

FixCapitalization ==
  /\ pc = "received" /\ req.route = "fixCapitalization"
  /\ res' = [status |-> 200, text |-> fixCapitalization(req.text)]
  /\ pc' = "responded"
  /\ UNCHANGED <<req, ext>>

ProcessTranscript ==
  /\ pc = "received" /\ req.route = "processTranscript"
  /\ res' = [status |-> 200, out |-> processTranscript(req.rawText)]
  /\ pc' = "responded"
  /\ UNCHANGED <<req, ext>>

\* processTranscript(rawText, segments) of the feature extractor, clamped
\* a null or undefined rawText gives deduplicate the text '' (!text), and a
\* null or undefined segments list is read as one of length 0 (segments &&,
\* segments?.length || 0)
ExtractFeatures ==
  /\ pc = "received" /\ req.route = "features"
  /\ res' = [status |-> 200, out |-> processTranscriptClamped(req.rawText, req.segments)]
  /\ pc' = "responded"
  /\ UNCHANGED <<req, ext>>

\* the version without the clamp reads segments.length in its pause loop: a
\* null or undefined segments list raises a TypeError there
ExtractFeaturesUnclamped ==
  /\ pc = "received" /\ req.route = "featuresUnclamped"
  /\ res' = IF "segments" \in req.missing
            THEN [status |-> 500, error |-> "TypeError"]
            ELSE [status |-> 200,
                  out |-> processTranscriptUnclamped(req.rawText, req.segments)]
  /\ pc' = "responded"
  /\ UNCHANGED <<req, ext>>

TranscriptInit ==
  /\ pc = "received"
  /\ req \in TranscriptRequests
  /\ res = NoResponse
  /\ ExtInit

TranscriptNext ==
  \/ Deduplicate
  \/ DeduplicateLoop
  \/ DeduplicateReturn
  \/ NormalizeFillers
  \/ FixCapitalization
  \/ ProcessTranscript
  \/ ExtractFeatures
  \/ ExtractFeaturesUnclamped

TranscriptSpec == TranscriptInit /\ [][TranscriptNext]_vars

\* ---------------------------------------------------------------- properties

Responded(route) == pc = "responded" /\ req.route = route

\* r is the multiple of 0.5 with r - 0.25 <= S / n < r + 0.25
IsHalfBandOfMean(r, S, n) ==
  /\ r # NULL
  /\ r % HALF = 0
  /\ n * (r - QUARTER) <= S
  /\ S < n * (r + QUARTER)

\* v is a multiple of 0.5 in [0, 9]
IsBand(v) == v # NULL /\ v % HALF = 0 /\ 0 <= v /\ v <= 9 * ONE

\* C1: for every raw score x in [0, 9], roundIELTS(x) is floor(x) when the
\* fractional part is below 0.25, floor(x) + 0.5 when it is in [0.25, 0.75) and
\* floor(x) + 1 when it is 0.75 or more.
C1_RoundIELTSBanded ==
  Responded("roundIELTS") =>
    LET whole == req.x - (req.x % ONE)
        frac4 == 4 * (req.x % ONE)
    IN  /\ frac4 < ONE => res.band = whole
        /\ (ONE <= frac4 /\ frac4 < 3 * ONE) => res.band = whole + HALF
        /\ 3 * ONE <= frac4 => res.band = whole + ONE

\* a raw score exactly on the 0.25 boundary was rounded up to the half band
C1_Witness ==
  /\ Responded("roundIELTS")
  /\ req.x = H(625)
  /\ res.band = H(650)

\* C2: in the attempt-finish aggregation the overall band is null iff no skill
\* band is present; otherwise it is the half-band rounding of the mean of the
\* present bands only, an absent skill never counting as zero.
C2_OverallIsMeanOfPresent ==
  /\ (Responded("finish") /\ res.status = 200) =>
       LET present == FilterNums(<<res.band_listening, res.band_reading,
                                   res.band_writing, res.band_speaking>>)
       IN  /\ res.band_overall = NULL <=> present = <<>>
           /\ present # <<>> =>
                IsHalfBandOfMean(res.band_overall, SumSeq(present), Len(present))
  /\ (Responded("complete") /\ res.status = 200) =>
       IsHalfBandOfMean(res.overall, res.listening + res.writing, 2)

\* listening 6.5 and writing 7.0 alone give overall 7.0
C2_Witness ==
  /\ Responded("finish")
  /\ res.status = 200
  /\ res.band_listening = H(650) /\ res.band_writing = H(700)
  /\ res.band_reading = NULL /\ res.band_speaking = NULL
  /\ res.band_overall = H(700)

\* C3: the composite writing/speaking band is the half-band rounding of the
\* mean of only the sub-criteria that are present, and null when none is
\* present; no default number stands in for a missing sub-criterion.
\* (Stated where the scorers compute the composite: the writing scorers when the
\* reply has no overall of its own, the speaking scorer always.)
C3_CompositeOverPresentOnly ==
  /\ (/\ pc = "responded"
      /\ req.route \in {"scoreWriting", "scoreWritingAverage4"}
      /\ req.llm = LlmOk /\ req.parsed.overall = NULL) =>
       LET present == FilterNums(<<req.parsed.tr, req.parsed.cc,
                                   req.parsed.lr, req.parsed.gra>>)
       IN  IF present = <<>> THEN res.score.overall = NULL
           ELSE IsHalfBandOfMean(res.score.overall, SumSeq(present), Len(present))
  /\ (Responded("speaking") /\ res.status = 200) =>
       LET present == FilterNums(<<req.bands.fluency_coherence, req.bands.lexical_resource,
                                   req.bands.grammatical_range, req.bands.pronunciation>>)
       IN  IF present = <<>> THEN res.overall = NULL
           ELSE IsHalfBandOfMean(res.overall, SumSeq(present), Len(present))

\* C4: whenever off_topic is true or the on-topic relevance is <= 50 (every
\* value 0..50), the returned band_overall is at most 3.0, and exactly 3.0 when
\* the incoming band_overall was >= 3.0.
C4_OffTopicCapped ==
  (/\ pc = "responded"
   /\ req.route \in {"score-writing", "detailed-scoring"}
   /\ res.status = 200
   /\ req.parsed.band_overall # NULL
   /\ \/ req.route = "score-writing" /\ req.parsed.off_topic
      \/ req.parsed.on_topic_percent \in 0..50) =>
    /\ res.band_overall <= H(300)
    /\ req.parsed.band_overall >= H(300) => res.band_overall = H(300)

\* C5: in the diagnostic writing score post-processing the returned
\* band_overall and each of tr, cc, lr, gra are at most 6.5.
C5_DiagnosticCeiling ==
  (/\ pc = "responded"
   /\ req.route \in {"score-writing", "score-writing-backend"}
   /\ res.status = 200) =>
    /\ res.band_overall <= H(650)
    /\ res.tr <= H(650) /\ res.cc <= H(650)
    /\ res.lr <= H(650) /\ res.gra <= H(650)

\* C6: whenever the word count is below the task's minimum (250 for Task 2,
\* 150 for Task 1), the returned band_overall is at most 5.0.
C6_LengthCapped ==
  (/\ pc = "responded"
   /\ req.route \in RouteNames
   /\ res.status = 200
   /\ req.parsed.band_overall # NULL
   /\ req.word_count # NULL
   /\ \/ req.task_type = "Task 2" /\ req.word_count < 250
      \/ req.task_type = "Task 1" /\ req.word_count < 150) =>
    /\ res.band_overall # NULL
    /\ res.band_overall <= H(500)

\* a Task 2 essay of 249 words scored 8.0 comes back as 5.0
C6_Witness ==
  /\ Responded("score-writing")
  /\ res.status = 200
  /\ req.task_type = "Task 2" /\ req.word_count = 249
  /\ req.parsed.band_overall = H(800)
  /\ ~res.off_topic
  /\ res.band_overall = H(500)

C10_RoundingRulesAgree ==
  Responded("roundIELTS") => res.band = roundHalf(req.x)

\* a raw score on the 0.75 boundary, where both rules give the next whole band
C10_Witness ==
  /\ Responded("roundIELTS")
  /\ req.x % ONE = 3 * QUARTER
  /\ res.band = req.x + QUARTER
  /\ roundHalf(req.x) = req.x + QUARTER

\* C10 (as claimed): some raw score x in [0, 9] on a quarter-band boundary has
\* roundIELTS(x) different from Math.round(x * 2) / 2.
C10_RulesDifferAtBoundary ==
  /\ req \in Requests
  /\ \E x \in RawScores :
       /\ x % QUARTER = 0 /\ x % HALF # 0
       /\ roundIELTS(x) # roundHalf(x)

\* C11: roundIELTS is idempotent: for every raw score x in [0, 9] the band it
\* returns is a multiple of 0.5 and roundIELTS of that band is the band itself.
C11_RoundIELTSIdempotent ==
  Responded("roundIELTS") =>
    /\ res.band % HALF = 0
    /\ roundIELTS(res.band) = res.band

\* a raw score that is no half band (6.3) was rounded, and rounding again changes nothing
C11_Witness ==
  /\ Responded("roundIELTS")
  /\ req.x = H(630)
  /\ res.band = H(650)
  /\ roundIELTS(res.band) = H(650)

\* C12: a failed scoring step (no API key, a rejected, empty or unparsable
\* scorer reply) and an undefined listening raw score yield a null band, never
\* a numeric one.
C12_FailureYieldsNull ==
  /\ (Responded("scoreWriting") /\ req.llm \in LlmFailures) =>
       /\ res.score.overall = NULL
       /\ res.score.tr = NULL /\ res.score.cc = NULL
       /\ res.score.lr = NULL /\ res.score.gra = NULL
  /\ (Responded("computeListeningBand") /\ req.rawScore = NULL) => res.band = NULL

\* ---------------------------------------------------------------- transcript properties

\* a is a subsequence of b: the elements of a appear in b in the same order
RECURSIVE IsSubsequence(_, _)
IsSubsequence(a, b) ==
  IF a = <<>> THEN TRUE
  ELSE IF b = <<>> THEN FALSE
  ELSE IF Head(a) = Head(b) THEN IsSubsequence(Tail(a), Tail(b))
  ELSE IsSubsequence(a, Tail(b))

\* a loop iteration of deduplicateSentences is being taken
DedupIteration == pc = "dedup" /\ res.i < Len(res.parts)

\* one of the (lower-cased) sentences is a proper prefix of the other
OnePrefixOfOther(a, b) == a # b /\ (startsWith(a, b) \/ startsWith(b, a))

\* the longer of a and b contains the shorter and is less than 1.5 times as long
OneContainsOther(a, b) ==
  \/ includes(a, b) /\ 2 * Len(a) < 3 * Len(b)
  \/ includes(b, a) /\ 2 * Len(b) < 3 * Len(a)

\* C13 (as amended): each sentence is compared, case-insensitively, with the
\* last kept sentence only: a sentence equal to it is dropped; a sentence that
\* neither equals it, nor is a prefix of it or prefixed by it, nor contains it
\* (at a length ratio below 1.5) is appended, whether or not it equals an
\* earlier kept sentence; and the kept sentences are in their input order.
C13_ComparesWithLastKept ==
  [][DedupIteration =>
       LET sentence == res.parts[res.i + 1]
           kept == res.deduplicated
           norm == toLowerCase(sentence)
           lastNorm == IF kept = <<>> THEN <<>> ELSE toLowerCase(kept[Len(kept)])
       IN  /\ (kept # <<>> /\ norm = lastNorm) => res'.deduplicated = kept
           /\ (\/ kept = <<>>
               \/ /\ norm # lastNorm
                  /\ ~OnePrefixOfOther(norm, lastNorm)
                  /\ ~(includes(norm, lastNorm) /\ 2 * Len(norm) < 3 * Len(lastNorm)))
                => res'.deduplicated = Append(kept, sentence)
           /\ IsSubsequence(res'.deduplicated, res.parts)]_vars

\* "ab. b.c. Ab.": the third sentence equals the first kept one, which is not
\* the last kept one, and was appended
C13_Witness ==
  /\ pc = "dedup"
  /\ res.branch = "new"
  /\ Len(res.deduplicated) = 3
  /\ res.deduplicated[3] = res.parts[res.i]
  /\ toLowerCase(res.deduplicated[1]) = toLowerCase(res.deduplicated[3])
  /\ toLowerCase(res.deduplicated[2]) # toLowerCase(res.deduplicated[3])

\* C13 (as claimed): a sentence equal to an earlier kept sentence that is not
\* the last kept one is kept: after its iteration it is the last kept sentence.
C13_EarlierDuplicateKept ==
  [][DedupIteration =>
       LET sentence == res.parts[res.i + 1]
           kept == res.deduplicated
       IN  (/\ \E j \in 1..(Len(kept) - 1) : toLowerCase(kept[j]) = toLowerCase(sentence)
            /\ toLowerCase(kept[Len(kept)]) # toLowerCase(sentence))
             => /\ res'.deduplicated # <<>>
                /\ res'.deduplicated[Len(res'.deduplicated)] = sentence]_vars

\* C14: whenever one of the new sentence and the last kept sentence is a
\* case-insensitive prefix of the other, or either contains the other at a
\* length ratio below 1.5, exactly one of the two is kept, the longer one.
C14_NearDuplicateKeepsLonger ==
  [][DedupIteration =>
       LET sentence == res.parts[res.i + 1]
           kept == res.deduplicated
           norm == toLowerCase(sentence)
           lastNorm == IF kept = <<>> THEN <<>> ELSE toLowerCase(kept[Len(kept)])
       IN  (/\ kept # <<>>
            /\ norm # lastNorm
            /\ OnePrefixOfOther(norm, lastNorm) \/ OneContainsOther(norm, lastNorm))
             => /\ Len(res'.deduplicated) = Len(kept)
                /\ res'.deduplicated[Len(kept)] =
                     IF Len(norm) > Len(lastNorm) THEN sentence ELSE kept[Len(kept)]]_vars

\* C15: "I think I think that the plan works." is returned as
\* "I think that the plan works.".
C15_StutterCollapsed ==
  (Responded("processTranscript") /\ req.rawText = StutterText) =>
    res.out.text =
      <<"I", " ", "t", "h", "i", "n", "k", " ", "t", "h", "a", "t", " ", "t", "h", "e",
        " ", "p", "l", "a", "n", " ", "w", "o", "r", "k", "s", ".">>

\* the words of a text and the separator after each: a word is a maximal run
\* of word characters (the first may be empty), a separator a maximal run of others
RECURSIVE Tokenize(_)
Tokenize(t) ==
  IF t = <<>> THEN <<>>
  ELSE LET w == RunLen(t, 1, WordChars)
           s == RunLen(t, w + 1, Range(t) \ WordChars)
       IN  <<[word |-> SubSeq(t, 1, w), sep |-> SubSeq(t, w + 1, w + s)]>>
             \o Tokenize(From(t, w + s + 1))

\* w is um, uh, er, ah or hmm with its last letter repeated at will, or like
IsFillerWord(w) ==
  LET l == toLowerCase(w)
  IN  \/ l = <<"l", "i", "k", "e">>
      \/ \E stem \in {<<"u", "m">>, <<"u", "h">>, <<"e", "r">>, <<"a", "h">>, <<"h", "m", "m">>} :
           /\ startsWith(l, stem)
           /\ \A k \in (Len(stem) + 1)..Len(l) : l[k] = stem[Len(stem)]

\* the text has neither of the two-word fillers
NoPhraseFiller(t) ==
  /\ ~includes(toLowerCase(t), <<"y", "o", "u", " ", "k", "n", "o", "w">>)
  /\ ~includes(toLowerCase(t), <<"i", " ", "m", "e", "a", "n">>)

\* a separator of 1 to maxSep characters of whitespace, comma, period, hyphen
IsLightSeparator(s, maxSep) ==
  /\ Len(s) \in 1..maxSep
  /\ \A k \in DOMAIN s : s[k] \in Spaces \cup {",", ".", "-"}

\* the tokens with each run of a repeated filler reduced to its first
\* occurrence, followed by what followed the run
RECURSIVE CollapseRuns(_, _)
CollapseRuns(tokens, maxSep) ==
  IF Len(tokens) < 2 THEN tokens
  ELSE LET a == tokens[1]
           b == tokens[2]
       IN  IF /\ IsFillerWord(a.word)
              /\ toLowerCase(a.word) = toLowerCase(b.word)
              /\ IsLightSeparator(a.sep, maxSep)
           THEN CollapseRuns(<<[word |-> a.word, sep |-> b.sep]>> \o Tail(Tail(tokens)), maxSep)
           ELSE <<a>> \o CollapseRuns(Tail(tokens), maxSep)

RECURSIVE Untokenize(_)
Untokenize(tokens) ==
  IF tokens = <<>> THEN <<>>
  ELSE Head(tokens).word \o Head(tokens).sep \o Untokenize(Tail(tokens))

\* the text with its filler runs collapsed and its whitespace compacted
CollapsedText(t, maxSep) ==
  trim(CompactWhitespace(Untokenize(CollapseRuns(Tokenize(t), maxSep))))

\* the fillers among the tokens, lower-cased, in order: a filler word, or
\* "you know" and "i mean" written with one space
RECURSIVE FillersAmong(_)
FillersAmong(tokens) ==
  IF tokens = <<>> THEN <<>>
  ELSE LET a == tokens[1]
           phrase == /\ Len(tokens) > 1
                     /\ a.sep = <<" ">>
                     /\ <<toLowerCase(a.word), toLowerCase(tokens[2].word)>> \in
                          {<< <<"y", "o", "u">>, <<"k", "n", "o", "w">> >>,
                           << <<"i">>, <<"m", "e", "a", "n">> >>}
       IN  IF phrase
           THEN <<toLowerCase(a.word) \o <<" ">> \o toLowerCase(tokens[2].word)>>
                  \o FillersAmong(Tail(Tail(tokens)))
           ELSE IF IsFillerWord(a.word) THEN <<toLowerCase(a.word)>> \o FillersAmong(Tail(tokens))
           ELSE FillersAmong(Tail(tokens))

C17_FillersOfRawText ==
  Responded("processTranscript") =>
    /\ res.out.fillerCount = Len(res.out.fillerWords)
    /\ res.out.fillerWords = FillersAmong(Tokenize(req.rawText))

\* "um um uh uh": four fillers are reported, two are left in the text
C17_Witness ==
  /\ Responded("processTranscript")
  /\ req.rawText = UmUhText
  /\ res.out.fillerCount = 4
  /\ res.out.fillerWords = <<<<"u", "m">>, <<"u", "m">>, <<"u", "h">>, <<"u", "h">>>>
  /\ Len(FillersAmong(Tokenize(res.out.text))) = 2

\* C18: in the text returned by fixCapitalization, and by processTranscript, no
\* whitespace comes right before one of , . ! ? ; : and every . ! ? that is not
\* the last character is followed by exactly one space.
C18_PunctuationSpacing ==
  (Responded("fixCapitalization") \/ Responded("processTranscript")) =>
    LET text == IF req.route = "fixCapitalization" THEN res.text ELSE res.out.text
    IN  \A p \in DOMAIN text :
          /\ (IsPunct(text[p]) /\ p > 1) => ~IsSpace(text[p - 1])
          /\ (IsEnder(text[p]) /\ p < Len(text)) =>
               /\ text[p + 1] = " "
               /\ p + 1 < Len(text) => ~IsSpace(text[p + 2])

\* C19: for an empty or whitespace-only rawText processTranscript returns empty
\* text, no sentences, wordCount 0, no fillerWords and fillerCount 0.
C19_BlankGivesZeroRecord ==
  (Responded("processTranscript") /\ \A k \in DOMAIN req.rawText : IsSpace(req.rawText[k])) =>
    res.out = [text |-> <<>>, sentences |-> <<>>, wordCount |-> 0,
               fillerWords |-> <<>>, fillerCount |-> 0]

\* a tab, a space and a newline gave the zero record
C19_Witness ==
  /\ Responded("processTranscript")
  /\ req.rawText = <<"\t", " ", "\n">>
  /\ res.out.text = <<>> /\ res.out.wordCount = 0 /\ res.out.fillerCount = 0

\* C20: in every record the feature extractor returns, speechDuration and
\* meanPauseDuration are >= 0, and for a non-empty segment list speechDuration
\* is last.end - first.start (an absent time being 0) clamped at 0.
C20_DurationsNotNegative ==
  ((Responded("features") \/ Responded("featuresUnclamped")) /\ res.status = 200) =>
    LET features == res.out.audioFeatures
        segs == req.segments
        span == Coalesce(segs[Len(segs)].end, 0) - Coalesce(segs[1].start, 0)
    IN  /\ features.speechDuration >= 0
        /\ features.meanPauseDuration >= 0
        /\ segs # <<>> => features.speechDuration = IF span > 0 THEN span ELSE 0

\* a call of the feature extractor returned a record
Returned(route) == Responded(route) /\ res.status = 200

\* a / b to the nearest integer, halves up (a >= 0, b > 0)
Nearest(a, b) == (2 * a + b) \div (2 * b)

\* C21: with no segments speechDuration is wordCount / 2.8 s, at least 1 s
\* (to two decimals), and wpm is wordCount over that duration times 60 (to one
\* decimal); with segments wpm is wordCount / speechDuration * 60, and 0 when
\* speechDuration is 0.  140 words with no segments give 50.0 s and 168 wpm,
\* 130 words over 60 s give 130.0 wpm.
C21_FallbackDurationAndWpm ==
  (Returned("features") \/ Returned("featuresUnclamped")) =>
    LET features == res.out.audioFeatures
        wordCount == features.wordCount
    IN  /\ req.segments = <<>> =>
              /\ features.speechDuration =
                   IF wordCount * 10 > 28 THEN Nearest(wordCount * 1000, 28) ELSE 100
              /\ features.wpm = IF wordCount * 10 > 28 THEN 1680 ELSE wordCount * 600
        /\ (req.segments # <<>> /\ features.speechDuration > 0) =>
              features.wpm = Nearest(wordCount * 60000, features.speechDuration)
        /\ features.speechDuration = 0 => features.wpm = 0
        /\ (req.rawText = WordsText(140) /\ req.segments = <<>>) =>
              features.wordCount = 140 /\ features.speechDuration = 5000 /\ features.wpm = 1680
        /\ (req.rawText = WordsText(130) /\ req.segments = MinuteSegments) =>
              features.wordCount = 130 /\ features.speechDuration = 6000 /\ features.wpm = 1300

\* 140 words and no segments: 50.0 s and 168 words per minute
C21_Witness ==
  /\ Returned("features")
  /\ req.rawText = WordsText(140) /\ req.segments = <<>> /\ req.missing = {}
  /\ res.out.audioFeatures.speechDuration = 5000
  /\ res.out.audioFeatures.wpm = 1680

\* the gap before segment i of the list, clamped at 0, in hundredths of a second
GapBefore(segments, i) ==
  LET gap == Coalesce(segments[i].start, 0) - Coalesce(segments[i - 1].end, 0)
  IN  IF gap > 0 THEN gap ELSE 0

\* C22: over the adjacent pairs of the segment list a gap is counted as a pause
\* exactly when it exceeds 0.2 s, and as a long pause too exactly when it is
\* >= 0.8 s; so longPauseCount <= pauseCount <= number of segments - 1, and
\* meanPauseDuration is the mean of the counted gaps (to two decimals), 0
\* when none is counted.
C22_PausesCounted ==
  (Returned("features") \/ Returned("featuresUnclamped")) =>
    LET features == res.out.audioFeatures
        segments == req.segments
        pauses == {i \in 2..Len(segments) : GapBefore(segments, i) > 20}
        long == {i \in 2..Len(segments) : GapBefore(segments, i) >= 80}
        counted == [i \in 1..Len(segments) |->
                      IF i \in pauses THEN GapBefore(segments, i) ELSE 0]
    IN  /\ features.pauseCount = Cardinality(pauses)
        /\ features.longPauseCount = Cardinality(long)
        /\ features.longPauseCount <= features.pauseCount
        /\ segments # <<>> => features.pauseCount <= Len(segments) - 1
        /\ features.meanPauseDuration =
             IF pauses = {} THEN 0 ELSE Nearest(SumSeq(counted), Cardinality(pauses))

\* gaps of 0.8 s and 0.2 s: the first is a long pause, the second is no pause
C22_Witness ==
  /\ Returned("features")
  /\ Len(req.segments) = 3
  /\ GapBefore(req.segments, 2) = 80 /\ GapBefore(req.segments, 3) = 20
  /\ res.out.audioFeatures.pauseCount = 1
  /\ res.out.audioFeatures.longPauseCount = 1
  /\ res.out.audioFeatures.meanPauseDuration = 80

\* C23: the feature extractor never throws: for an empty, null or undefined
\* rawText and an empty, null or undefined segment list it returns a record.
C23_NeverThrows ==
  (Responded("features") \/ Responded("featuresUnclamped")) =>
    /\ res.status = 200
    /\ res.out.audioFeatures.wordCount >= 0

\* C29: deduplicateSentences is idempotent: applied to its own output it
\* returns that output unchanged.
C29_DedupIdempotent ==
  Responded("deduplicateSentences") => deduplicateSentences(res.text) = res.text

\* the skill bands that are present in a finish response
PresentBands(r) ==
  {b \in {r.band_listening, r.band_reading, r.band_writing, r.band_speaking} : IsNum(b)}

\* C30: in the attempt-finish aggregation, when at least one skill band is
\* present, the overall band lies between the smallest and the largest present
\* skill band, stored listening and reading bands off the half-band grid included.
C30_OverallWithinSkillBands ==
  (Returned("finish") /\ PresentBands(res) # {}) =>
    /\ \E b \in PresentBands(res) : b <= res.band_overall
    /\ \E b \in PresentBands(res) : res.band_overall <= b

\* ---------------------------------------------------------------- scoreWriting, await by await

\* what a completion gives: "json" a JSON object, "null" JSON that is no
\* object, "bad" text that is no JSON, "empty" no content, "throw" a rejected
\* promise (the client's request timeout included)
Completions == {"json", "null", "bad", "empty", "throw"}

AllDefaulted == [tr |-> NULL, cc |-> NULL, lr |-> NULL, gra |-> NULL, overall |-> NULL]
AllScored == [tr |-> H(675), cc |-> H(700), lr |-> H(425), gra |-> H(900), overall |-> H(660)]

WritingCalls ==
  [route : {"scoreWriting"},
   llm : [apiKey : BOOLEAN, first : Completions, retry : Completions],
   parsed : {SampleParsed, AllDefaulted, AllScored}]

\* what follows the first completion: the catch of the function, the early
\* return on no content, the retry on a JSON.parse failure, else the guard
AfterCompletion_RetryOnEmpty(raw) ==
  IF raw = "throw" THEN "fallback"
  ELSE IF raw \in {"bad", "empty"} THEN "retry"
  ELSE "guard"

AfterCompletion(raw) ==
  IF raw \in {"throw", "empty"} THEN "fallback"
  ELSE IF raw = "bad" THEN "retry"
  ELSE "guard"

\* what follows the retry: no further retry
AfterRetry(raw) ==
  IF raw \in {"throw", "empty", "bad"} THEN "fallback" ELSE "guard"

\* "Guard numbers + round to 0.5": reading parsed.tr of a parsed null throws a
\* TypeError, which the catch of the function turns into the fallback
Guarded(raw, parsed) ==
  IF raw = "null" THEN SAFE_FALLBACK ELSE GuardAndRound(parsed)

Resolved(score) == [status |-> 200, score |-> score]

\* up to the first await: no key, no call
StartScoring ==
  /\ pc = "received" /\ req.route = "scoreWriting"
  /\ IF ~req.llm.apiKey
     THEN /\ res' = Resolved(SAFE_FALLBACK)
          /\ pc' = "responded"
          /\ UNCHANGED calls
     ELSE /\ calls' = calls + 1
          /\ pc' = "awaitCompletion"
          /\ UNCHANGED res
  /\ UNCHANGED <<req, frames, db>>

\* the first completion settles
CompletionSettles ==
  /\ pc = "awaitCompletion"
  /\ LET next == AfterCompletion(req.llm.first)
     IN  IF next = "retry"
         THEN /\ calls' = calls + 1
              /\ pc' = "awaitRetry"
              /\ UNCHANGED res
         ELSE /\ res' = Resolved(IF next = "guard"
                                 THEN Guarded(req.llm.first, req.parsed)
                                 ELSE SAFE_FALLBACK)
              /\ pc' = "responded"
              /\ UNCHANGED calls
  /\ UNCHANGED <<req, frames, db>>

\* the retry settles
RetrySettles ==
  /\ pc = "awaitRetry"
  /\ res' = Resolved(IF AfterRetry(req.llm.retry) = "guard"
                     THEN Guarded(req.llm.retry, req.parsed)
                     ELSE SAFE_FALLBACK)
  /\ pc' = "responded"
  /\ UNCHANGED <<req, calls, frames, db>>

WritingInit ==
  /\ pc = "received"
  /\ req \in WritingCalls
  /\ res = NoResponse
  /\ ExtInit

WritingNext ==
  \/ StartScoring
  \/ CompletionSettles
  \/ RetrySettles

\* an await resumes once its promise settles, and the client settles every
\* request (it rejects on its timeout)
WritingSpec == WritingInit /\ [][WritingNext]_vars /\ WF_vars(WritingNext)

\* every field of a WritingScore a number
IsWritingScore(score) ==
  \A f \in {"tr", "cc", "lr", "gra", "overall"} : IsNum(score[f]) /\ score[f] % HALF = 0

\* C28: scoreWriting asks the scoring service for at most two completions, the
\* second only after the first reply failed to parse as JSON; it never throws,
\* and it always eventually resolves to a complete WritingScore.
C28_ScoreWritingResolves ==
  /\ [](/\ calls <= 2
        /\ calls = 2 => req.llm.first = "bad"
        /\ pc = "responded" => /\ res.status = 200
                               /\ IsWritingScore(res.score))
  /\ <>(pc = "responded")

\* a first reply that is no JSON, then a retry that parses: two calls and the
\* parsed scores, not the fallback
C28_Witness ==
  /\ pc = "responded" /\ req.route = "scoreWriting"
  /\ calls = 2
  /\ req.llm.first = "bad" /\ req.llm.retry = "json"
  /\ res.score = GuardAndRound(req.parsed)
  /\ res.score # SAFE_FALLBACK

\* ---------------------------------------------------------------- payment webhook

\* the bound of the number of deliveries of events of one order
MaxDeliveries == 3

\* the x-razorpay-signature header against the hex HMAC-SHA256 of the raw
\* body (64 characters): absent, equal, different with 64 bytes, different
\* with another number of bytes
Signatures == {"missing", "valid", "wrongSameLength", "wrongLength"}

SuccessEvents == {"payment.captured", "order.paid"}
WebhookEvents == SuccessEvents \cup {"payment.failed"}

\* the entities of an event: payment.captured carries the payment, order.paid
\* the order "and sometimes" the payment
EventShapes ==
  {sh \in [event : WebhookEvents, paymentEntity : BOOLEAN] :
     sh.event # "order.paid" => sh.paymentEntity}

\* one delivery: the handler mounted, the environment, the header, the event of
\* the order order_1 paid by pay_1, whether the notes name email and module,
\* and the time of the delivery
WebhookRequests ==
  [route : {"webhook"}, handler : {"webhookRawHandler", "razorpayWebhook"},
   secret : BOOLEAN, supabase : BOOLEAN, signature : Signatures,
   event : WebhookEvents, paymentEntity : BOOLEAN, notes : BOOLEAN, at : {1}]

EmptyTables == [payments |-> <<>>, user_access |-> {}]

\* crypto.timingSafeEqual(a, b): a RangeError when the byte lengths differ
verifySignature(signature) ==
  IF signature = "wrongLength" THEN "RangeError"
  ELSE IF signature = "valid" THEN "true"
  ELSE "false"

\* supabase.from('payments').insert(row): the result is not looked at
InsertPayment(tables, row) ==
  [tables EXCEPT !.payments = Append(@, row)]

\* supabase.from('user_access').upsert(row, {onConflict: 'user_email,module_type'})
UpsertAccess(tables, row) ==
  [tables EXCEPT !.user_access =
     {r \in @ : ~(r.user_email = row.user_email /\ r.module_type = row.module_type)}
     \cup {row}]

AccessRow(r) ==
  [user_email |-> "a@x", module_type |-> "Academic", paid |-> TRUE,
   source |-> "razorpay_webhook", updated_at |-> r.at]

\* webhookRawHandler of routes/razorpay-webhook.ts: the status sent and the tables left
webhookRawHandler(r, tables) ==
  IF ~r.secret THEN [status |-> 500, tables |-> tables]
  ELSE IF r.signature = "missing" THEN [status |-> 400, tables |-> tables]
  ELSE IF verifySignature(r.signature) = "RangeError" THEN [status |-> 200, tables |-> tables]
  ELSE IF verifySignature(r.signature) = "false" THEN [status |-> 400, tables |-> tables]
  ELSE IF r.event \notin SuccessEvents THEN [status |-> 200, tables |-> tables]
  ELSE IF ~r.notes THEN [status |-> 200, tables |-> tables]
  ELSE IF ~r.supabase THEN [status |-> 500, tables |-> tables]
  ELSE [status |-> 200,
        tables |->
          UpsertAccess(
            InsertPayment(tables,
              [user_email |-> "a@x", module_type |-> "Academic",
               order_id |-> "order_1",
               payment_id |-> IF r.paymentEntity THEN "pay_1" ELSE "null",
               status |-> "captured"]),
            AccessRow(r))]

\* grantAccess of part_006
grantAccess(r, tables) ==
  IF ~r.supabase THEN tables
  ELSE LET recorded ==
             InsertPayment(tables,
               [user_email |-> IF r.notes THEN "a@x" ELSE "null",
                module_type |-> IF r.notes THEN "Academic" ELSE "null",
                order_id |-> "order_1", payment_id |-> "null",
                status |-> "captured"])
       IN  IF r.notes THEN UpsertAccess(recorded, AccessRow(r)) ELSE recorded

\* razorpayWebhook of part_006 (the handler with grantAccess)
razorpayWebhook(r, tables) ==
  IF ~r.secret THEN [status |-> 500, tables |-> tables]
  ELSE IF r.signature = "missing" THEN [status |-> 400, tables |-> tables]
  ELSE IF verifySignature(r.signature) = "RangeError" THEN [status |-> 200, tables |-> tables]
  ELSE IF verifySignature(r.signature) = "false" THEN [status |-> 400, tables |-> tables]
  ELSE IF r.event \in SuccessEvents THEN [status |-> 200, tables |-> grantAccess(r, tables)]
  ELSE IF r.supabase
       THEN [status |-> 200,
             tables |-> InsertPayment(tables,
                          [user_email |-> IF r.notes THEN "a@x" ELSE "null",
                           module_type |-> IF r.notes THEN "Academic" ELSE "null",
                           order_id |-> "order_1", payment_id |-> "null",
                           status |-> "failed"])]
       ELSE [status |-> 200, tables |-> tables]

WebhookRawHandler ==
  /\ pc = "received" /\ req.handler = "webhookRawHandler"
  /\ LET done == webhookRawHandler(req, db)
     IN  /\ res' = [status |-> done.status]
         /\ db' = done.tables
  /\ pc' = "responded"
  /\ UNCHANGED <<req, frames, calls>>

RazorpayWebhook ==
  /\ pc = "received" /\ req.handler = "razorpayWebhook"
  /\ LET done == razorpayWebhook(req, db)
     IN  /\ res' = [status |-> done.status]
         /\ db' = done.tables
  /\ pc' = "responded"
  /\ UNCHANGED <<req, frames, calls>>

\* the payment provider delivers an event of the same order again: the same
\* event, or the other event of the order
Redeliver ==
  /\ pc = "responded" /\ req.at < MaxDeliveries
  /\ \E sh \in EventShapes :
       req' = [req EXCEPT !.at = @ + 1, !.event = sh.event,
                          !.paymentEntity = sh.paymentEntity]
  /\ pc' = "received"
  /\ res' = NoResponse
  /\ UNCHANGED <<frames, calls, db>>

WebhookInit ==
  /\ pc = "received"
  /\ req \in {r \in WebhookRequests : r.event # "order.paid" => r.paymentEntity}
  /\ res = NoResponse
  /\ frames = <<>> /\ calls = 0
  /\ db = EmptyTables

WebhookNext ==
  \/ WebhookRawHandler
  \/ RazorpayWebhook
  \/ Redeliver

WebhookSpec == WebhookInit /\ [][WebhookNext]_vars

\* C26: granting access from the webhook is idempotent: once a captured
\* payment of the order is recorded, handling a successful event of the same
\* order again (the same event, or the other of payment.captured and
\* order.paid) leaves the payments rows and the user_access rows as they are.
C26_RedeliveryChangesNoRow ==
  [][(/\ pc = "received"
      /\ req.event \in SuccessEvents
      /\ \E i \in 1..Len(db.payments) : db.payments[i].status = "captured")
     => db' = db]_vars

\* C27: a webhook request whose signature header is missing or is not the
\* HMAC of the raw body, whatever its length, is answered 400 and writes
\* nothing to payments or user_access.
C27_BadSignatureRejected ==
  (req.route = "webhook" /\ req.secret /\ req.signature # "valid") =>
    /\ db = EmptyTables
    /\ pc = "responded" => res.status = 400

\* ---------------------------------------------------------------- attempts/start

\* the bound of the number of concurrent start requests of one email and module
MaxClients == 3
\* the bound of the attempts remaining before the requests
MaxRemaining == 2

Clients == 1..MaxClients

\* the two definitions of the route in routes/entitlements.ts, named by the
\* RPC each calls
StartHandlers == {"consume_attempt", "increment_entitlement"}

\* the Postgres function consume_attempt, as the comment above the route asks
\* of it: one transaction, decrement when remaining > 0, else raise NO_ATTEMPTS
consume_attempt(remaining) ==
  IF remaining > 0
  THEN [error |-> "none", remaining |-> remaining - 1]
  ELSE [error |-> "NO_ATTEMPTS", remaining |-> remaining]

\* the Postgres function increment_entitlement(p_email, p_module, p_add):
\* remaining = remaining + p_add, returning the new remaining
increment_entitlement(remaining, p_add) == remaining + p_add

\* the first definition: the whole of the work is the one RPC
ConsumeAttempt(c) ==
  /\ pc[c] = "received" /\ req[c].handler = "consume_attempt"
  /\ LET done == consume_attempt(db.remaining)
     IN  /\ db' = [db EXCEPT !.remaining = done.remaining]
         /\ res' = [res EXCEPT ![c] =
                      IF done.error = "none"
                      THEN [status |-> 200, ok |-> TRUE, remaining |-> done.remaining]
                      ELSE [status |-> 400, ok |-> FALSE, remaining |-> NULL]]
  /\ pc' = [pc EXCEPT ![c] = "responded"]
  /\ UNCHANGED <<req, frames, calls>>

\* the second definition, up to its second await: "1) Read current remaining"
ReadRemaining(c) ==
  /\ pc[c] = "received" /\ req[c].handler = "increment_entitlement"
  /\ frames' = [frames EXCEPT ![c] = [remaining |-> db.remaining]]
  /\ IF db.remaining <= 0
     THEN /\ res' = [res EXCEPT ![c] = [status |-> 400, ok |-> FALSE, remaining |-> NULL]]
          /\ pc' = [pc EXCEPT ![c] = "responded"]
     ELSE /\ pc' = [pc EXCEPT ![c] = "read"]
          /\ UNCHANGED res
  /\ UNCHANGED <<req, calls, db>>

\* the second definition, from its second await: "2) Decrement by 1"
DecrementRemaining(c) ==
  /\ pc[c] = "read"
  /\ LET dec == increment_entitlement(db.remaining, -1)
     IN  /\ db' = [db EXCEPT !.remaining = dec]
         /\ res' = [res EXCEPT ![c] = [status |-> 200, ok |-> TRUE, remaining |-> dec]]
  /\ pc' = [pc EXCEPT ![c] = "responded"]
  /\ UNCHANGED <<req, frames, calls>>

\* granted: the attempts remaining when the requests arrive
StartInit ==
  /\ pc = [c \in Clients |-> "received"]
  /\ \E h \in StartHandlers : req = [c \in Clients |-> [route |-> "attempts/start", handler |-> h]]
  /\ res = [c \in Clients |-> NoResponse]
  /\ frames = [c \in Clients |-> [remaining |-> NULL]]
  /\ calls = 0
  /\ \E n \in 0..MaxRemaining : db = [remaining |-> n, granted |-> n]

StartNext ==
  \E c \in Clients :
    \/ ConsumeAttempt(c)
    \/ ReadRemaining(c)
    \/ DecrementRemaining(c)

StartSpec == StartInit /\ [][StartNext]_vars

\* C25: under any interleaving of concurrent start requests of one email and
\* module, the requests answered {ok: true} are never more than the attempts
\* remaining at the start, and the stored remaining never drops below 0.
C25_NoAttemptConsumedTwice ==
  /\ Cardinality({c \in Clients : pc[c] = "responded" /\ res[c].ok}) <= db.granted
  /\ db.remaining >= 0

\* ---------------------------------------------------------------- concurrent calls

\* the bound of the number of calls in progress at once, one per request
MaxCallers == 2

Callers == 1..MaxCallers

\* "ab. ab."
TwiceText == <<"a", "b", ".", " ", "a", "b", ".">>

\* the calls of the four components made for independent requests
ComponentCalls ==
  [route : {"processTranscript"}, rawText : {TwiceText, UmUhText, <<" ">>}]
  \cup [route : {"features"}, rawText : {UmUhText}, segments : {SampleSegments}]
  \cup [route : {"meanHalf"},
        vals : {<<H(650), NULL, H(700), NULL>>, <<NULL, NULL, NULL, NULL>>}]
  \cup [route : {"roundIELTS"}, x : {H(625)}]

\* the locals of a call before its first statement
NoLocals ==
  [processed |-> <<>>, fillerWords |-> <<>>, text |-> <<>>,
   totalDuration |-> [n |-> 0, d |-> 1], nums |-> <<>>, floor |-> 0, frac |-> 0]

\* one frame of locals for all calls, as module-level variables would be
FrameOf_Shared(c) == 1

\* const and let inside the function bodies: every call has its own locals
FrameOf(c) == c

Locals(c) == frames[FrameOf(c)]

Bind(c, locals) == frames' = [frames EXCEPT ![FrameOf(c)] = locals]

Step(c, from, route, to) ==
  /\ pc[c] = from /\ req[c].route = route
  /\ pc' = [pc EXCEPT ![c] = to]

Return(c, from, route, result) ==
  /\ pc[c] = from /\ req[c].route = route
  /\ pc' = [pc EXCEPT ![c] = "responded"]
  /\ res' = [res EXCEPT ![c] = result]

\* processTranscript(rawText) of the normalizer, statement by statement
PtExtract(c) ==
  /\ pc[c] = "received" /\ req[c].route = "processTranscript"
  /\ IF trim(req[c].rawText) = <<>>
     THEN /\ Return(c, "received", "processTranscript", [status |-> 200, out |-> EmptyTranscript])
          /\ UNCHANGED frames
     ELSE /\ Step(c, "received", "processTranscript", "extracted")
          /\ Bind(c, [NoLocals EXCEPT !.fillerWords = extractFillers(req[c].rawText),
                                      !.processed = req[c].rawText])
          /\ UNCHANGED res
  /\ UNCHANGED <<req, calls, db>>

PtDeduplicate(c) ==
  /\ Step(c, "extracted", "processTranscript", "deduplicated")
  /\ Bind(c, [Locals(c) EXCEPT !.processed = deduplicateSentences(@)])
  /\ UNCHANGED <<req, res, calls, db>>

PtNormalize(c) ==
  /\ Step(c, "deduplicated", "processTranscript", "normalized")
  /\ Bind(c, [Locals(c) EXCEPT !.processed = normalizeFillers(@)])
  /\ UNCHANGED <<req, res, calls, db>>

PtCapitalize(c) ==
  /\ Step(c, "normalized", "processTranscript", "capitalized")
  /\ Bind(c, [Locals(c) EXCEPT !.processed = fixCapitalization(@)])
  /\ UNCHANGED <<req, res, calls, db>>

PtReturn(c) ==
  /\ Return(c, "capitalized", "processTranscript",
            [status |-> 200,
             out |-> [text |-> Locals(c).processed,
                      sentences |-> SplitSentences(Locals(c).processed),
                      wordCount |-> CountWords(Locals(c).processed, 1),
                      fillerWords |-> Locals(c).fillerWords,
                      fillerCount |-> Len(Locals(c).fillerWords)]])
  /\ UNCHANGED <<req, frames, calls, db>>

\* processTranscript(rawText, segments) of the feature extractor, clamped
FeDeduplicate(c) ==
  /\ Step(c, "received", "features", "deduplicated")
  /\ Bind(c, [NoLocals EXCEPT !.text = deduplicate(req[c].rawText)])
  /\ UNCHANGED <<req, res, calls, db>>

FeDuration(c) ==
  /\ Step(c, "deduplicated", "features", "timed")
  /\ LET segments == req[c].segments
         span == IF Len(segments) > 0 THEN SpanOf(segments) ELSE 0
     IN  Bind(c, [Locals(c) EXCEPT !.totalDuration =
                    IF Len(segments) > 0 THEN [n |-> IF span > 0 THEN span ELSE 0, d |-> 1]
                    ELSE FallbackDuration(CountTokens(Locals(c).text))])
  /\ UNCHANGED <<req, res, calls, db>>

FeReturn(c) ==
  /\ Return(c, "timed", "features",
            [status |-> 200,
             out |-> FeaturesOf(Locals(c).text, req[c].segments, Locals(c).totalDuration)])
  /\ UNCHANGED <<req, frames, calls, db>>

\* meanHalf(vals): the filter, then the empty test and the rounded mean
MhFilter(c) ==
  /\ Step(c, "received", "meanHalf", "filtered")
  /\ Bind(c, [NoLocals EXCEPT !.nums = FilterNums(req[c].vals)])
  /\ UNCHANGED <<req, res, calls, db>>

MhReturn(c) ==
  /\ Return(c, "filtered", "meanHalf",
            [status |-> 200,
             band |-> IF Len(Locals(c).nums) = 0 THEN NULL
                      ELSE roundIELTS(SumSeq(Locals(c).nums) \div Len(Locals(c).nums))])
  /\ UNCHANGED <<req, frames, calls, db>>

\* roundIELTS(x): floor and frac, then the comparisons
RiFloor(c) ==
  /\ Step(c, "received", "roundIELTS", "floored")
  /\ Bind(c, [NoLocals EXCEPT !.floor = (req[c].x \div ONE) * ONE,
                              !.frac = req[c].x - (req[c].x \div ONE) * ONE])
  /\ UNCHANGED <<req, res, calls, db>>

RiReturn(c) ==
  /\ Return(c, "floored", "roundIELTS",
            [status |-> 200,
             band |-> IF Locals(c).frac < QUARTER THEN Locals(c).floor
                      ELSE IF Locals(c).frac < 3 * QUARTER THEN Locals(c).floor + HALF
                      ELSE Locals(c).floor + ONE])
  /\ UNCHANGED <<req, frames, calls, db>>

ConcurrentInit ==
  /\ pc = [c \in Callers |-> "received"]
  /\ req \in [Callers -> ComponentCalls]
  /\ res = [c \in Callers |-> NoResponse]
  /\ frames = [c \in Callers |-> NoLocals]
  /\ calls = 0 /\ db = <<>>

ConcurrentNext ==
  \E c \in Callers :
    \/ PtExtract(c)
    \/ PtDeduplicate(c)
    \/ PtNormalize(c)
    \/ PtCapitalize(c)
    \/ PtReturn(c)
    \/ FeDeduplicate(c)
    \/ FeDuration(c)
    \/ FeReturn(c)
    \/ MhFilter(c)
    \/ MhReturn(c)
    \/ RiFloor(c)
    \/ RiReturn(c)

ConcurrentSpec == ConcurrentInit /\ [][ConcurrentNext]_vars

\* what the call returns when it runs alone
Sequential(r) ==
  IF r.route = "processTranscript" THEN [status |-> 200, out |-> processTranscript(r.rawText)]
  ELSE IF r.route = "features"
       THEN [status |-> 200, out |-> processTranscriptClamped(r.rawText, r.segments)]
  ELSE IF r.route = "meanHalf" THEN [status |-> 200, band |-> meanHalf(r.vals)]
  ELSE [status |-> 200, band |-> roundIELTS(r.x)]

\* C24: the normalizer, the feature extractor, the rounding and the aggregation
\* share no mutable state: under any interleaving of the statements of calls
\* made for independent requests, every call returns what it returns alone.
C24_InterleavedAsSequential ==
  \A c \in Callers : pc[c] = "responded" => res[c] = Sequential(req[c])

\* two normalizer calls on different texts, both before their return, each
\* holding the text its own pipeline produced; then one returned its result
\* while the other is still in progress
C24_Witness ==
  /\ req[1].route = "processTranscript" /\ req[2].route = "processTranscript"
  /\ req[1].rawText # req[2].rawText
  /\ pc[1] = "responded" /\ pc[2] = "capitalized"
  /\ res[1].out.text # <<>>
  /\ res[1] = Sequential(req[1])
  /\ frames[2].processed = processTranscript(req[2].rawText).text
  /\ frames[1].processed # frames[2].processed

====
